---- MODULE Spec2Model ----
(***************************************************************************)
(* Model of the Iris actor runtime.                                        *)
(*                                                                         *)
(* Mailbox (Spec): src/src/mailbox.rs with the timeout wrappers built on   *)
(* it (src/src/py/mailbox.rs, src/src/node.rs).  One mailbox is modelled:  *)
(* the two tokio channels (user, system), the receiver's stash, the shared *)
(* atomic counter, the sender handles and the single receiver.  A send is  *)
(* one step; a receive is one step per poll of its future, so that a       *)
(* suspended receive can be woken, timed out or dropped, and a selective   *)
(* receive takes one message per step.                                     *)
(*                                                                         *)
(* Name registry (SpecRegistry): src/src/registry.rs as PyRuntime calls it.*)
(*                                                                         *)
(* Hot swap (SpecSwap): PyRuntime::spawn_py_handler and hot_swap with the  *)
(* release_gil paths of src/src/py/pool.rs.                                *)
(*                                                                         *)
(* Actors (SpecRuntime, SpecRuntimeFair): stop, link, unlink, monitor,     *)
(* spawn_child and the exit path.  PyRuntime forwards these calls to the   *)
(* core runtime, whose code is not part of src/; what the core does with   *)
(* them follows the description of the runtime.                            *)
(*                                                                         *)
(* Supervisor (SpecSupervisor): PyRuntime::watch and supervise_with_factory*)
(* with the restart strategies of the core supervisor.                     *)
(*                                                                         *)
(* One actor (SpecActor): the reduction budget, the list of an observed    *)
(* actor, send to a PID that is gone, and the one-shot timer, as PyRuntime *)
(* and NodeRuntime hand them to the core runtime.                          *)
(*                                                                         *)
(* Network (SpecNetwork): src/src/network.rs.  The listener, one task per  *)
(* accepted connection that reads the byte stream frame by frame, and the  *)
(* clients send_remote and resolve_remote; integers travel as big-endian   *)
(* bytes and a payload length is cut to 32 bits where the code casts it.   *)
(*                                                                         *)
(* Shared mailbox (SpecShared): one bounded mailbox under concurrent       *)
(* senders, whose send is a fetch_add and an enqueue, and concurrent       *)
(* callers of one PyMailbox, whose receives go through its tokio mutex.    *)
(*                                                                         *)
(* Buffer registry (SpecBuffer): allocate_buffer and send_buffer.          *)
(*                                                                         *)
(* release_gil threads (SpecGil): the thread counter of                    *)
(* make_release_gil_channel in src/src/py/pool.rs under concurrent calls.  *)
(*                                                                         *)
(* Bounded actor (SpecBounded): sends to an actor of                       *)
(* spawn_py_handler_bounded interleaved with its receive loop.             *)
(*                                                                         *)
(* Each specification moves the variables of its own component and leaves  *)
(* the other components as they were constructed.                          *)
(***************************************************************************)
EXTENDS Integers, Sequences, FiniteSets, TLC

\* ---------------------------------------------------------------- bounds
MaxMsgs == 3
MaxCap == 1
MaxSlices == 1

Senders == {1, 2}
Bodies == {"a", "b"}
SysBodies == {"x"}
\* capacity 0 stands for channel(); MaxCap for bounded_channel(MaxCap)
Caps == {0, MaxCap}
\* predicates handed to selective_recv, as the set of (kind, body) they accept
Preds == { {}, {<<"User", "b">>}, {<<"System", "x">>} }

VARIABLES cap, usr, sys, stash, counter, rxAlive, txAlive,
          pc, call, evals, nextId, accepted, delivered, closedLen, last

vars == <<cap, usr, sys, stash, counter, rxAlive, txAlive,
          pc, call, evals, nextId, accepted, delivered, closedLen, last>>

\* the name registry: the DashMap of NameRegistry, the register/unregister calls made
\* so far, and the call that just returned
VARIABLES names, regLog, regLast

registryVars == <<names, regLog, regLast>>

\* a push actor spawned by spawn_py_handler: how its callbacks run (swPath), its
\* mailbox, the callable behind its RwLock, the crossbeam channel of PoolTasks, the
\* task each worker thread has taken, whether the interpreter is still up, and what
\* has been sent, swapped and handled so far
VARIABLES swPath, swBox, behavior, tasks, held, pyInit, swSent, swCalls, swWant, swHandled

swapVars == <<swPath, swBox, behavior, tasks, held, pyInit, swSent, swCalls, swWant, swHandled>>

\* the actor table of the runtime (PID -> control block), the user messages waiting in
\* every actor's mailbox, and what has happened so far: the Exit messages enqueued into
\* each mailbox (exits), who was linked to and monitoring an actor when it went
\* not-alive (atExit), what its handler did (seen)
VARIABLES actors, inbox, exits, atExit, seen

runtimeVars == <<actors, inbox, exits, atExit, seen>>

\* a step of one component leaves the others alone
\* the supervisor: the live actors, the next PID, the child specs by supervised PID,
\* the PIDs supervised under a path, and the call or exit that was handled last
VARIABLES supLive, supNextPid, children, pathChildren, supLast

supervisorVars == <<supLive, supNextPid, children, pathChildren, supLast>>

\* one observed push actor: its control block with mailbox, budget and observed list;
\* the timers by timer id; and what was sent, dispatched, taken and returned so far
VARIABLES actor, timers, actorLog

actorVars == <<actor, timers, actorLog>>

\* the network endpoint: the connections the listener has accepted, and the node behind
\* it (listener, names, mailboxes)
VARIABLES conns, node

networkVars == <<conns, node>>

\* one mailbox shared by several senders and by several callers of one PyMailbox: the
\* mailbox, the tokio mutex around its receiver, each send and each receive in
\* progress, and what was accepted and returned so far
VARIABLES shBox, shLock, shSend, shCall, shLog

sharedVars == <<shBox, shLock, shSend, shCall, shLog>>

\* the shared buffer registry, the mailbox send_buffer delivers into, and the call that
\* returned last
VARIABLES buffers, bufBox, bufLast

bufferVars == <<buffers, bufBox, bufLast>>

\* the dedicated release_gil threads: the static thread counter with the threads that
\* live, each make_release_gil_channel call in progress, and the call that returned last
VARIABLES gilPool, gilCall, gilLast

gilVars == <<gilPool, gilCall, gilLast>>

\* one actor spawned with spawn_py_handler_bounded: its bounded mailbox, its receive loop,
\* and what the sends to it returned
VARIABLES bdBox, bdActor, bdSends

boundedVars == <<bdBox, bdActor, bdSends>>

OnlyMailbox == UNCHANGED <<registryVars, swapVars, runtimeVars, supervisorVars, actorVars, networkVars, sharedVars, bufferVars, gilVars, boundedVars>>
OnlyRegistry == UNCHANGED <<vars, swapVars, runtimeVars, supervisorVars, actorVars, networkVars, sharedVars, bufferVars, gilVars, boundedVars>>
OnlySwap == UNCHANGED <<vars, registryVars, runtimeVars, supervisorVars, actorVars, networkVars, sharedVars, bufferVars, gilVars, boundedVars>>
OnlyRuntime == UNCHANGED <<vars, registryVars, swapVars, supervisorVars, actorVars, networkVars, sharedVars, bufferVars, gilVars, boundedVars>>
OnlySupervisor == UNCHANGED <<vars, registryVars, swapVars, runtimeVars, actorVars, networkVars, sharedVars, bufferVars, gilVars, boundedVars>>
OnlyActor == UNCHANGED <<vars, registryVars, swapVars, runtimeVars, supervisorVars, networkVars, sharedVars, bufferVars, gilVars, boundedVars>>
OnlyNetwork == UNCHANGED <<vars, registryVars, swapVars, runtimeVars, supervisorVars, actorVars, sharedVars, bufferVars, gilVars, boundedVars>>
OnlyShared == UNCHANGED <<vars, registryVars, swapVars, runtimeVars, supervisorVars, actorVars, networkVars, bufferVars, gilVars, boundedVars>>
OnlyBuffer == UNCHANGED <<vars, registryVars, swapVars, runtimeVars, supervisorVars, actorVars, networkVars, sharedVars, gilVars, boundedVars>>
OnlyGil == UNCHANGED <<vars, registryVars, swapVars, runtimeVars, supervisorVars, actorVars, networkVars, sharedVars, bufferVars, boundedVars>>
OnlyBounded == UNCHANGED <<vars, registryVars, swapVars, runtimeVars, supervisorVars, actorVars, networkVars, sharedVars, bufferVars, gilVars>>

\* ------------------------------------------------------------- messages
Message(k, b, s, n) == [kind |-> k, body |-> b, from |-> s, id |-> n]

IsUser(m) == m.kind = "User"
IsSystem(m) == m.kind = "System"

Matches(P, m) == <<m.kind, m.body>> \in P

\* ------------------------------------------------------ sequence helpers
RemoveAt(s, i) == [j \in 1..(Len(s) - 1) |-> IF j < i THEN s[j] ELSE s[j + 1]]

\* faulty variant of FirstSystem: the position of the last system message
FirstSystemLast(s) ==
    IF \E i \in 1..Len(s) : IsSystem(s[i])
    THEN CHOOSE i \in 1..Len(s) : IsSystem(s[i]) /\ \A j \in (i + 1)..Len(s) : ~IsSystem(s[j])
    ELSE 0

\* position of the first system message of the stash, 0 when there is none
FirstSystem(s) ==
    IF \E i \in 1..Len(s) : IsSystem(s[i])
    THEN CHOOSE i \in 1..Len(s) : IsSystem(s[i]) /\ \A j \in 1..(i - 1) : ~IsSystem(s[j])
    ELSE 0

\* position of the first message of the stash the predicate accepts, 0 when none
FirstMatch(P, s) ==
    IF \E i \in 1..Len(s) : Matches(P, s[i])
    THEN CHOOSE i \in 1..Len(s) : Matches(P, s[i]) /\ \A j \in 1..(i - 1) : ~Matches(P, s[j])
    ELSE 0

UsersOf(s) == SelectSeq(s, IsUser)
SystemsOf(s) == SelectSeq(s, IsSystem)

Range(s) == {s[i] : i \in 1..Len(s)}

\* ------------------------------------------------------------- constants
NoMsg == [kind |-> "None", body |-> "", from |-> 0, id |-> 0]
NoCall == [api |-> "none", op |-> "none", pred |-> {}, timed |-> FALSE, slices |-> 0]
NoSnap == [stash |-> <<>>, sys |-> <<>>, usr |-> <<>>, counter |-> 0]
NoEvals == [i \in 1..MaxMsgs |-> 0]

\* the mailbox as one step found it
Snapshot == [stash |-> stash, sys |-> sys, usr |-> usr, counter |-> counter]

\* ------------------------------------------------------------ bookkeeping
\* a finished call as its caller sees it: the entry point, what came back (res), the
\* message sent or received (msg), the message handed back inside Err (back), the
\* predicate of a selective receive, the mailbox the returning step found, and how
\* often the predicate ran on each message
Done(op, res, msg, back, P, pre, ev) ==
    [op |-> op, res |-> res, msg |-> msg, back |-> back, pred |-> P, pre |-> pre, evals |-> ev]

\* tokio: the channels report closed to the receiver once every sender is dropped
NoLast == Done("none", "none", NoMsg, NoMsg, {}, NoSnap, NoEvals)

Closed == ~txAlive

Init ==
    /\ cap \in Caps
    /\ usr = <<>>
    /\ sys = <<>>
    /\ stash = <<>>
    /\ counter = 0
    /\ rxAlive = TRUE
    /\ txAlive = TRUE
    /\ pc = "idle"
    /\ call = NoCall
    /\ evals = NoEvals
    /\ nextId = 1
    /\ accepted = {}
    /\ delivered = {}
    /\ closedLen = 0
    /\ last = NoLast

\* ------------------------------------------------------------ sender side
\* faulty variant of UserSend: a failed enqueue does not roll the counter back
UserSendNoRollback(m, us, c, open, k) ==
    LET inc == c + 1
        ok == open /\ (k = 0 \/ Len(us) < k)
    IN  [res |-> IF ok THEN "Ok" ELSE "Err",
         back |-> IF ok THEN NoMsg ELSE m,
         usr |-> IF ok THEN Append(us, m) ELSE us,
         counter |-> inc]

\* send(Message::User(b)) and send_user_bytes(b) on the channels (us, counter c):
\* fetch_add, then tx.send / tx.try_send, then fetch_sub if that failed
UserSend(m, us, c, open, k) ==
    LET inc == c + 1
        ok == open /\ (k = 0 \/ Len(us) < k)
    IN  [res |-> IF ok THEN "Ok" ELSE "Err",
         back |-> IF ok THEN NoMsg ELSE m,
         usr |-> IF ok THEN Append(us, m) ELSE us,
         counter |-> IF ok THEN inc ELSE inc - 1]

\* faulty variant of SystemSend: the system channel obeys the capacity of the user queue
SystemSendBounded(m, sy, c, open) ==
    LET ok == open /\ (cap = 0 \/ Len(usr) < cap)
    IN  [res |-> IF ok THEN "Ok" ELSE "Err",
         back |-> IF ok THEN NoMsg ELSE m,
         sys |-> IF ok THEN Append(sy, m) ELSE sy,
         counter |-> c]

\* send(Message::System(s)) and send_system(s): tx_sys.send
SystemSend(m, sy, c, open) ==
    [res |-> IF open THEN "Ok" ELSE "Err",
     back |-> IF open THEN NoMsg ELSE m,
     sys |-> IF open THEN Append(sy, m) ELSE sy,
     counter |-> c]

\* senders are interchangeable clones: the one that sends first is called 1
FirstSender(s) == nextId = 1 => s = 1

SendUser(s, b, api) ==
    /\ txAlive
    /\ nextId <= MaxMsgs
    /\ FirstSender(s)
    /\ LET m == Message("User", b, s, nextId)
           r == UserSend(m, usr, counter, rxAlive, cap)
       IN  /\ usr' = r.usr
           /\ counter' = r.counter
           /\ accepted' = IF r.res = "Ok" THEN accepted \cup {m.id} ELSE accepted
           /\ last' = Done(api, r.res, m, r.back, {}, Snapshot, NoEvals)
    /\ nextId' = nextId + 1
    /\ UNCHANGED <<cap, sys, stash, rxAlive, txAlive, pc, call, evals, delivered, closedLen>>
    /\ OnlyMailbox

SendSystem(s, b, api) ==
    /\ txAlive
    /\ nextId <= MaxMsgs
    /\ FirstSender(s)
    /\ LET m == Message("System", b, s, nextId)
           r == SystemSend(m, sys, counter, rxAlive)
       IN  /\ sys' = r.sys
           /\ counter' = r.counter
           /\ accepted' = IF r.res = "Ok" THEN accepted \cup {m.id} ELSE accepted
           /\ last' = Done(api, r.res, m, r.back, {}, Snapshot, NoEvals)
    /\ nextId' = nextId + 1
    /\ UNCHANGED <<cap, usr, stash, rxAlive, txAlive, pc, call, evals, delivered, closedLen>>
    /\ OnlyMailbox

\* the last MailboxSender clone goes out of scope (the earlier drops close nothing
\* and only take away callers, so they are not separate steps)
DropSenders ==
    /\ txAlive
    /\ txAlive' = FALSE
    /\ last' = NoLast
    /\ UNCHANGED <<cap, usr, sys, stash, counter, rxAlive, pc, call, evals, nextId,
                   accepted, delivered, closedLen>>
    /\ OnlyMailbox

\* the MailboxReceiver is dropped (with any future awaiting on it): both channels
\* close and what they and the stash held is gone; the counter is not touched
DropReceiver ==
    /\ rxAlive
    /\ rxAlive' = FALSE
    /\ usr' = <<>>
    /\ sys' = <<>>
    /\ stash' = <<>>
    /\ pc' = "idle"
    /\ call' = NoCall
    /\ evals' = NoEvals
    /\ closedLen' = counter
    /\ last' = NoLast
    /\ UNCHANGED <<cap, counter, txAlive, nextId, accepted, delivered>>
    /\ OnlyMailbox

\* ---------------------------------------------------------- receiver side
\* What one poll of a receive future does to (stash, sys channel, user channel):
\*   t = "msg"     a message is returned (dec: the counter is decremented first)
\*   t = "none"    None is returned
\*   t = "stashed" selective_recv rejected m, pushed it on the stash and loops
\*   t = "searched" selective_recv found no match in the stash and enters its loop
\*   t = "pending" both channels are empty and open: the future suspends
Out(t, m, dec, st, sy, us) ==
    [t |-> t, m |-> m, dec |-> dec, stash |-> st, sys |-> sy, usr |-> us]

\* faulty variant of SelectPoll: the user channel hands out its newest message
SelectPollNewest(st, sy, us, closed) ==
    IF sy # <<>> THEN Out("msg", Head(sy), FALSE, st, Tail(sy), us)
    ELSE IF closed THEN Out("none", NoMsg, FALSE, st, sy, us)
    ELSE IF us # <<>> THEN Out("msg", us[Len(us)], TRUE, st, sy, SubSeq(us, 1, Len(us) - 1))
    ELSE Out("pending", NoMsg, FALSE, st, sy, us)

\* tokio::select! { biased; rx_sys.recv(), rx_user.recv() } of recv
SelectPoll(st, sy, us, closed) ==
    IF sy # <<>> THEN Out("msg", Head(sy), FALSE, st, Tail(sy), us)
    ELSE IF closed THEN Out("none", NoMsg, FALSE, st, sy, us)
    ELSE IF us # <<>> THEN Out("msg", Head(us), TRUE, st, sy, Tail(us))
    ELSE Out("pending", NoMsg, FALSE, st, sy, us)

\* faulty variant of RecvPoll: the front of the stash goes out before the system channel is tried
RecvPollStashFirst(st, sy, us, closed) ==
    LET i == FirstSystem(st) IN
    IF i > 0 THEN Out("msg", st[i], FALSE, RemoveAt(st, i), sy, us)
    ELSE IF st # <<>> THEN Out("msg", Head(st), IsUser(Head(st)), Tail(st), sy, us)
    ELSE IF sy # <<>> THEN Out("msg", Head(sy), FALSE, st, Tail(sy), us)
    ELSE SelectPoll(st, sy, us, closed)

\* recv up to its first suspension
RecvPoll(st, sy, us, closed) ==
    LET i == FirstSystem(st) IN
    IF i > 0 THEN Out("msg", st[i], FALSE, RemoveAt(st, i), sy, us)
    ELSE IF sy # <<>> THEN Out("msg", Head(sy), FALSE, st, Tail(sy), us)
    ELSE IF st # <<>> THEN Out("msg", Head(st), IsUser(Head(st)), Tail(st), sy, us)
    ELSE SelectPoll(st, sy, us, closed)

\* try_recv
TryRecvPoll(st, sy, us) ==
    LET i == FirstSystem(st) IN
    IF i > 0 THEN Out("msg", st[i], FALSE, RemoveAt(st, i), sy, us)
    ELSE IF sy # <<>> THEN Out("msg", Head(sy), FALSE, st, Tail(sy), us)
    ELSE IF st # <<>> THEN Out("msg", Head(st), IsUser(Head(st)), Tail(st), sy, us)
    ELSE IF us # <<>> THEN Out("msg", Head(us), TRUE, st, sy, Tail(us))
    ELSE Out("none", NoMsg, FALSE, st, sy, us)

\* faulty variant of StashSearch: a user message taken from the stash is not counted down
StashSearchNoDec(P, st, sy, us) ==
    LET i == FirstMatch(P, st) IN
    IF i > 0 THEN Out("msg", st[i], FALSE, RemoveAt(st, i), sy, us)
    ELSE Out("searched", NoMsg, FALSE, st, sy, us)

\* selective_recv, the search of the stash
StashSearch(P, st, sy, us) ==
    LET i == FirstMatch(P, st) IN
    IF i > 0 THEN Out("msg", st[i], IsUser(st[i]), RemoveAt(st, i), sy, us)
    ELSE Out("searched", NoMsg, FALSE, st, sy, us)

\* the stash entries that search handed to the predicate
Searched(P, st) ==
    LET i == FirstMatch(P, st) IN
    {st[j].id : j \in 1..(IF i > 0 THEN i ELSE Len(st))}

\* faulty variant of SelLoopPoll: a rejected message is dropped instead of stashed
SelLoopPollDrop(P, st, sy, us, closed) ==
    IF sy # <<>>
    THEN IF Matches(P, Head(sy))
         THEN Out("msg", Head(sy), FALSE, st, Tail(sy), us)
         ELSE Out("stashed", Head(sy), FALSE, st, Tail(sy), us)
    ELSE IF closed THEN Out("none", NoMsg, FALSE, st, sy, us)
    ELSE IF us # <<>>
    THEN IF Matches(P, Head(us))
         THEN Out("msg", Head(us), TRUE, st, sy, Tail(us))
         ELSE Out("stashed", Head(us), FALSE, st, sy, Tail(us))
    ELSE Out("pending", NoMsg, FALSE, st, sy, us)

\* selective_recv, one turn of its loop
SelLoopPoll(P, st, sy, us, closed) ==
    IF sy # <<>>
    THEN IF Matches(P, Head(sy))
         THEN Out("msg", Head(sy), FALSE, st, Tail(sy), us)
         ELSE Out("stashed", Head(sy), FALSE, Append(st, Head(sy)), Tail(sy), us)
    ELSE IF closed THEN Out("none", NoMsg, FALSE, st, sy, us)
    ELSE IF us # <<>>
    THEN IF Matches(P, Head(us))
         THEN Out("msg", Head(us), TRUE, st, sy, Tail(us))
         ELSE Out("stashed", Head(us), FALSE, Append(st, Head(us)), sy, Tail(us))
    ELSE Out("pending", NoMsg, FALSE, st, sy, us)

\* the predicate ran on every id of `ids` once more
Count(ev, ids) == [i \in 1..MaxMsgs |-> IF i \in ids THEN ev[i] + 1 ELSE ev[i]]

\* The receiver takes the outcome `out` of a poll of call `c`.
Take(out, c, ev) ==
    /\ stash' = out.stash
    /\ sys' = out.sys
    /\ usr' = out.usr
    /\ counter' = IF out.t = "msg" /\ out.dec THEN counter - 1 ELSE counter
    /\ IF out.t \in {"msg", "none"}
       THEN /\ pc' = "idle"
            /\ call' = NoCall
            /\ evals' = NoEvals
            /\ last' = Done(c.op, IF out.t = "msg" THEN "Some" ELSE "None", out.m, NoMsg,
                         c.pred, Snapshot, ev)
            /\ delivered' = IF out.t = "msg" THEN delivered \cup {out.m.id} ELSE delivered
       ELSE /\ pc' = IF c.op = "recv" THEN "recv_wait" ELSE "sel"
            /\ call' = c
            /\ evals' = ev
            /\ last' = NoLast
            /\ delivered' = delivered
    /\ UNCHANGED <<cap, rxAlive, txAlive, nextId, accepted, closedLen>>
    /\ OnlyMailbox

NewCall(api, op, P, timed) ==
    [api |-> api, op |-> op, pred |-> P, timed |-> timed, slices |-> 0]

\* MailboxReceiver::recv is awaited: directly ("rust"), by JsMailbox.recv under
\* tokio::time::timeout ("js"), or by PyMailbox.recv in 100 ms slices ("py")
Recv(api, timed) ==
    /\ rxAlive
    /\ pc = "idle"
    /\ Take(RecvPoll(stash, sys, usr, Closed), NewCall(api, "recv", {}, timed), NoEvals)

\* a suspended recv is woken by a channel
RecvWake ==
    /\ pc = "recv_wait"
    /\ SelectPoll(stash, sys, usr, Closed).t # "pending"
    /\ Take(SelectPoll(stash, sys, usr, Closed), call, evals)

\* MailboxReceiver::try_recv
TryRecv ==
    /\ rxAlive
    /\ pc = "idle"
    /\ Take(TryRecvPoll(stash, sys, usr), NewCall("rust", "try_recv", {}, FALSE), NoEvals)

\* MailboxReceiver::selective_recv is awaited, directly or by PyMailbox.selective_recv
SelectiveRecv(api, P, timed) ==
    /\ rxAlive
    /\ pc = "idle"
    /\ Take(StashSearch(P, stash, sys, usr), NewCall(api, "selective_recv", P, timed),
            Count(NoEvals, Searched(P, stash)))

\* one turn of the loop of selective_recv
SelStep ==
    /\ pc = "sel"
    /\ LET out == SelLoopPoll(call.pred, stash, sys, usr, Closed) IN
       /\ out.t # "pending"
       /\ Take(out, call, IF out.t \in {"msg", "stashed"}
                          THEN Count(evals, {out.m.id}) ELSE evals)

\* the suspended future has nothing to take: only now can a timeout win the race
Blocked ==
    /\ pc \in {"recv_wait", "sel"}
    /\ sys = <<>>
    /\ usr = <<>>
    /\ ~Closed

\* JsMailbox.recv(timeout_sec): tokio::time::timeout elapses, the future is dropped
JsTimeout ==
    /\ Blocked
    /\ call.api = "js"
    /\ call.timed
    /\ pc' = "idle"
    /\ call' = NoCall
    /\ evals' = NoEvals
    /\ last' = Done(call.op, "Timeout", NoMsg, NoMsg, call.pred, Snapshot, evals)
    /\ UNCHANGED <<cap, usr, sys, stash, counter, rxAlive, txAlive, nextId,
                   accepted, delivered, closedLen>>
    /\ OnlyMailbox

\* PyMailbox.recv / selective_recv: the 100 ms slice elapses and the caller's
\* timeout has run out too: None goes back to Python
PyTimeout ==
    /\ Blocked
    /\ call.api = "py"
    /\ call.timed
    /\ pc' = "idle"
    /\ call' = NoCall
    /\ evals' = NoEvals
    /\ last' = Done(call.op, "Timeout", NoMsg, NoMsg, call.pred, Snapshot, evals)
    /\ UNCHANGED <<cap, usr, sys, stash, counter, rxAlive, txAlive, nextId,
                   accepted, delivered, closedLen>>
    /\ OnlyMailbox

\* PyMailbox.recv / selective_recv: the slice elapses with time left (or with no
\* timeout at all): the loop awaits the receiver's method afresh
PySlice ==
    /\ Blocked
    /\ call.api = "py"
    /\ call.slices < MaxSlices
    /\ LET c == [call EXCEPT !.slices = @ + 1] IN
       IF call.op = "recv"
       THEN Take(RecvPoll(stash, sys, usr, Closed), c, evals)
       ELSE Take(StashSearch(call.pred, stash, sys, usr), c,
                 Count(evals, Searched(call.pred, stash)))

Next ==
    \/ \E s \in Senders, b \in Bodies, api \in {"send", "send_user_bytes"} :
          SendUser(s, b, api)
    \/ \E s \in Senders, b \in SysBodies, api \in {"send", "send_system"} :
          SendSystem(s, b, api)
    \/ DropSenders
    \/ DropReceiver
    \/ \E c \in {<<"rust", FALSE>>, <<"js", TRUE>>, <<"py", TRUE>>, <<"py", FALSE>>} :
          Recv(c[1], c[2])
    \/ RecvWake
    \/ TryRecv
    \/ \E c \in {<<"rust", FALSE>>, <<"py", TRUE>>, <<"py", FALSE>>}, P \in Preds :
          SelectiveRecv(c[1], P, c[2])
    \/ SelStep
    \/ JsTimeout
    \/ PyTimeout
    \/ PySlice

\* the mailbox before any use, for the specifications of the other components
MailboxInit == Init /\ cap = 0

\* ---------------------------------------------------------- name registry
MaxCalls == 4

RegNames == {"a", "b"}
RegPids == {1, 2}

\* Option<Pid>
Some(p) == <<p>>
None == <<>>

\* DashMap::insert as a first-writer-wins insertion (faulty variant of Insert)
InsertIfAbsent(map, name, pid) ==
    IF name \in DOMAIN map THEN map
    ELSE [n \in DOMAIN map \cup {name} |-> IF n = name THEN pid ELSE map[n]]

\* DashMap::insert: the entry of `name` is created or overwritten
Insert(map, name, pid) ==
    [n \in DOMAIN map \cup {name} |-> IF n = name THEN pid ELSE map[n]]

\* DashMap::remove: the entry of `name` is dropped when there is one
Remove(map, name) == [n \in DOMAIN map \ {name} |-> map[n]]

\* DashMap::get(name).map(|p| *p)
Get(map, name) == IF name \in DOMAIN map THEN Some(map[name]) ELSE None

\* a finished registry call: the method, its arguments, what it returned and the map
\* it found
RegDone(op, name, pid, res, pre) ==
    [op |-> op, name |-> name, pid |-> pid, res |-> res, pre |-> pre]

NoRegLast == RegDone("none", "", 0, None, <<>>)

\* NameRegistry::new
RegistryInit ==
    /\ names = <<>>
    /\ regLog = <<>>
    /\ regLast = NoRegLast

\* PyRuntime::register -> NameRegistry::register
Register(name, pid) ==
    /\ Len(regLog) < MaxCalls
    /\ names' = Insert(names, name, pid)
    /\ regLog' = Append(regLog, [op |-> "register", name |-> name, pid |-> pid])
    /\ regLast' = RegDone("register", name, pid, None, names)
    /\ OnlyRegistry

\* PyRuntime::unregister -> NameRegistry::unregister
Unregister(name) ==
    /\ Len(regLog) < MaxCalls
    /\ names' = Remove(names, name)
    /\ regLog' = Append(regLog, [op |-> "unregister", name |-> name, pid |-> 0])
    /\ regLast' = RegDone("unregister", name, 0, None, names)
    /\ OnlyRegistry

\* PyRuntime::resolve and its alias whereis -> NameRegistry::resolve
Resolve(api, name) ==
    /\ regLast' = RegDone(api, name, 0, Get(names, name), names)
    /\ UNCHANGED <<names, regLog>>
    /\ OnlyRegistry

NextRegistry ==
    \/ \E n \in RegNames, p \in RegPids : Register(n, p)
    \/ \E n \in RegNames : Unregister(n)
    \/ \E n \in RegNames, api \in {"resolve", "whereis"} : Resolve(api, n)

\* ---------------------------------------------------------------- hot swap
MaxUserMsgs == 2
MaxSwaps == 1
PoolWorkers == 2

\* the callable given to spawn_py_handler, and the ones hot_swap brings
FirstBehavior == "B0"
NewBehaviors == {"B1", "B2"}

Workers == 1..PoolWorkers
NoTask == [kind |-> "None", arg |-> 0, want |-> ""]

\* make_release_gil_channel with RELEASE_GIL_THREADS = 0: no channel without
\* release_gil ("inline"); a dedicated thread and its channel below the thread limit
\* ("thread"); at the limit an error in strict mode ("err"), else the shared pool is
\* started and no channel is returned ("pool")
MakeReleaseGilChannel(release, maxThreads, strict) ==
    IF ~release THEN "inline"
    ELSE IF 0 >= maxThreads THEN (IF strict THEN "err" ELSE "pool")
    ELSE "thread"

\* the threads that serve the actor's tasks: the dedicated thread or the pool
ServedBy(path) ==
    IF path = "thread" THEN {1} ELSE IF path = "pool" THEN Workers ELSE {}

\* before spawn_py_handler
SwapInit ==
    /\ swPath = "none"
    /\ swBox = [sys |-> <<>>, usr |-> <<>>]
    /\ behavior = FirstBehavior
    /\ tasks = <<>>
    /\ held = [w \in Workers |-> NoTask]
    /\ pyInit = TRUE
    /\ swSent = 0
    /\ swCalls = 0
    /\ swWant = FirstBehavior
    /\ swHandled = {}

\* PyRuntime::spawn_py_handler(py_callable, budget, release_gil)
SpawnPyHandler(release, maxThreads, strict) ==
    /\ swPath = "none"
    /\ MakeReleaseGilChannel(release, maxThreads, strict) # "err"
    /\ swPath' = MakeReleaseGilChannel(release, maxThreads, strict)
    /\ UNCHANGED <<swBox, behavior, tasks, held, pyInit, swSent, swCalls, swWant, swHandled>>
    /\ OnlySwap

\* PyRuntime::send(pid, data): a user message, numbered in the order of the sends
SwapSend ==
    /\ swPath # "none"
    /\ swSent < MaxUserMsgs
    /\ swSent' = swSent + 1
    /\ swBox' = [swBox EXCEPT !.usr = Append(@, swSent + 1)]
    /\ UNCHANGED <<swPath, behavior, tasks, held, pyInit, swCalls, swWant, swHandled>>
    /\ OnlySwap

\* PyRuntime::hot_swap(pid, new_handler): System(HotSwap(ptr)) goes to the actor
HotSwap(P) ==
    /\ swPath # "none"
    /\ swCalls < MaxSwaps
    /\ swCalls' = swCalls + 1
    /\ swBox' = [swBox EXCEPT !.sys = Append(@, P)]
    /\ UNCHANGED <<swPath, behavior, tasks, held, pyInit, swSent, swWant, swHandled>>
    /\ OnlySwap

\* the callable `by` ran on user message `m`, which the actor dequeued when `want`
\* was the latest behavior it had been told to swap to
Handled(m, by, want) == [msg |-> m, by |-> by, want |-> want]

\* the handler of spawn_py_handler on HotSwap(P), the actor's next message
\* (system messages first)
DeliverHotSwap ==
    /\ swPath # "none"
    /\ swBox.sys # <<>>
    /\ swBox' = [swBox EXCEPT !.sys = Tail(@)]
    /\ swWant' = Head(swBox.sys)
    /\ IF ~pyInit THEN UNCHANGED <<behavior, tasks>>
       ELSE IF swPath = "inline"
            THEN behavior' = Head(swBox.sys) /\ UNCHANGED tasks
            ELSE /\ tasks' = Append(tasks, [kind |-> "HotSwap", arg |-> Head(swBox.sys),
                                            want |-> Head(swBox.sys)])
                 /\ UNCHANGED behavior
    /\ UNCHANGED <<swPath, held, pyInit, swSent, swCalls, swHandled>>
    /\ OnlySwap

\* the handler of spawn_py_handler on the actor's next user message
DeliverUser ==
    /\ swPath # "none"
    /\ swBox.sys = <<>>
    /\ swBox.usr # <<>>
    /\ swBox' = [swBox EXCEPT !.usr = Tail(@)]
    /\ IF ~pyInit THEN UNCHANGED <<tasks, swHandled>>
       ELSE IF swPath = "inline"
            THEN /\ swHandled' = swHandled \cup {Handled(Head(swBox.usr), behavior, swWant)}
                 /\ UNCHANGED tasks
            ELSE /\ tasks' = Append(tasks, [kind |-> "Execute", arg |-> Head(swBox.usr),
                                            want |-> swWant])
                 /\ UNCHANGED swHandled
    /\ UNCHANGED <<swPath, behavior, held, pyInit, swSent, swCalls, swWant>>
    /\ OnlySwap

\* rx.recv_timeout returns Ok(task) in a worker thread
WorkerTake(w) ==
    /\ w \in ServedBy(swPath)
    /\ held[w] = NoTask
    /\ tasks # <<>>
    /\ held' = [held EXCEPT ![w] = Head(tasks)]
    /\ tasks' = Tail(tasks)
    /\ UNCHANGED <<swPath, swBox, behavior, pyInit, swSent, swCalls, swWant, swHandled>>
    /\ OnlySwap

\* the worker thread gets the GIL and runs the task it took; with the interpreter
\* gone it drops the task
WorkerRun(w) ==
    /\ held[w] # NoTask
    /\ held' = [held EXCEPT ![w] = NoTask]
    /\ IF ~pyInit THEN UNCHANGED <<behavior, swHandled>>
       ELSE IF held[w].kind = "Execute"
            THEN /\ swHandled' = swHandled \cup {Handled(held[w].arg, behavior, held[w].want)}
                 /\ UNCHANGED behavior
            ELSE /\ behavior' = held[w].arg
                 /\ UNCHANGED swHandled
    /\ UNCHANGED <<swPath, swBox, tasks, pyInit, swSent, swCalls, swWant>>
    /\ OnlySwap

\* the Python interpreter is finalized: Py_IsInitialized() is 0 from now on
PyFinalize ==
    /\ pyInit
    /\ pyInit' = FALSE
    /\ UNCHANGED <<swPath, swBox, behavior, tasks, held, swSent, swCalls, swWant, swHandled>>
    /\ OnlySwap

NextSwap ==
    \/ \E release \in BOOLEAN, maxThreads \in {0, 1}, strict \in BOOLEAN :
          SpawnPyHandler(release, maxThreads, strict)
    \/ SwapSend
    \/ \E P \in NewBehaviors : HotSwap(P)
    \/ DeliverHotSwap
    \/ DeliverUser
    \/ \E w \in Workers : WorkerTake(w)
    \/ \E w \in Workers : WorkerRun(w)
    \/ PyFinalize

\* ------------------------------------------------- actors, links, monitors
MaxInbox == 1

\* the PIDs the runtime hands out
Pids == {1, 2}

\* the control block of a PID that no spawn has handed out yet
NoActor ==
    [state |-> "free", stop |-> FALSE, busy |-> FALSE, parent |-> 0,
     links |-> {}, monitors |-> {}, reason |-> ""]

NoExit == [cause |-> "", linked |-> {}, watchers |-> {}, targets |-> {}]

\* the calls made so far: the pairs link joined and unlink has not separated, the
\* pairs <<a, b>> of monitor(a, b), the actors stop was called on (and those it found
\* inside their handler); and what the handlers did: the actors whose Python callable
\* raised, and those that took a user message after stop
NoneSeen ==
    [linked |-> {}, monitoring |-> {}, stopped |-> {}, stoppedBusy |-> {},
     raised |-> {}, late |-> {}]

IsAlive(p) == actors[p].state = "alive"
IsDead(p) == actors[p].state = "dead"

\* Runtime::new
RuntimeInit ==
    /\ actors = [p \in Pids |-> NoActor]
    /\ inbox = [p \in Pids |-> 0]
    /\ exits = [s \in Pids |-> <<>>]
    /\ atExit = [p \in Pids |-> NoExit]
    /\ seen = NoneSeen

\* PIDs are handed out in increasing order and never reused
FreshPid(p) ==
    /\ actors[p].state = "free"
    /\ \A q \in Pids : q < p => actors[q].state # "free"

\* PyRuntime::spawn_py_handler / spawn_with_mailbox (parent = 0) and
\* PyRuntime::spawn_child (a push actor whose lifetime is tied to `parent`): a new
\* control block and an empty mailbox
Spawn(p, parent) ==
    /\ FreshPid(p)
    /\ parent # 0 => IsAlive(parent)
    /\ actors' = [actors EXCEPT ![p] = [NoActor EXCEPT !.state = "alive", !.parent = parent]]
    /\ UNCHANGED <<inbox, exits, atExit, seen>>
    /\ OnlyRuntime

\* PyRuntime::send: a user message for a live actor
Send(p) ==
    /\ IsAlive(p)
    /\ inbox[p] < MaxInbox
    /\ inbox' = [inbox EXCEPT ![p] = @ + 1]
    /\ UNCHANGED <<actors, exits, atExit, seen>>
    /\ OnlyRuntime

\* PyRuntime::stop: the stop flag is set and the synthetic shutdown is enqueued
Stop(p) ==
    /\ IsAlive(p)
    /\ ~actors[p].stop
    /\ actors' = [actors EXCEPT ![p].stop = TRUE]
    /\ seen' = [seen EXCEPT !.stopped = @ \cup {p},
                            !.stoppedBusy = @ \cup (IF actors[p].busy THEN {p} ELSE {})]
    /\ UNCHANGED <<inbox, exits, atExit>>
    /\ OnlyRuntime

\* faulty variant of Link: only a learns of b
LinkOneWay(a, b) ==
    /\ a # b
    /\ IsAlive(a)
    /\ IsAlive(b)
    /\ {a, b} \notin seen.linked
    /\ actors' = [actors EXCEPT ![a].links = @ \cup {b}]
    /\ seen' = [seen EXCEPT !.linked = @ \cup {{a, b}}]
    /\ UNCHANGED <<inbox, exits, atExit>>
    /\ OnlyRuntime

\* PyRuntime::link: each of the two joins the other's linked peers
Link(a, b) ==
    /\ a # b
    /\ IsAlive(a)
    /\ IsAlive(b)
    /\ {a, b} \notin seen.linked
    /\ actors' = [actors EXCEPT ![a].links = @ \cup {b}, ![b].links = @ \cup {a}]
    /\ seen' = [seen EXCEPT !.linked = @ \cup {{a, b}}]
    /\ UNCHANGED <<inbox, exits, atExit>>
    /\ OnlyRuntime

\* PyRuntime::unlink
Unlink(a, b) ==
    /\ a # b
    /\ IsAlive(a)
    /\ IsAlive(b)
    /\ {a, b} \in seen.linked
    /\ actors' = [actors EXCEPT ![a].links = @ \ {b}, ![b].links = @ \ {a}]
    /\ seen' = [seen EXCEPT !.linked = @ \ {{a, b}}]
    /\ UNCHANGED <<inbox, exits, atExit>>
    /\ OnlyRuntime

\* faulty variant of Monitor: the monitor is entered on both sides
MonitorBothWays(a, b) ==
    /\ a # b
    /\ IsAlive(a)
    /\ IsAlive(b)
    /\ <<a, b>> \notin seen.monitoring
    /\ actors' = [actors EXCEPT ![b].monitors = @ \cup {a}, ![a].monitors = @ \cup {b}]
    /\ seen' = [seen EXCEPT !.monitoring = @ \cup {<<a, b>>}]
    /\ UNCHANGED <<inbox, exits, atExit>>
    /\ OnlyRuntime

\* monitor(a, b): a joins the monitors of b
Monitor(a, b) ==
    /\ a # b
    /\ IsAlive(a)
    /\ IsAlive(b)
    /\ <<a, b>> \notin seen.monitoring
    /\ actors' = [actors EXCEPT ![b].monitors = @ \cup {a}]
    /\ seen' = [seen EXCEPT !.monitoring = @ \cup {<<a, b>>}]
    /\ UNCHANGED <<inbox, exits, atExit>>
    /\ OnlyRuntime

\* the children of d that are alive
ChildrenOf(d) == {c \in Pids : IsAlive(c) /\ actors[c].parent = d}

\* System(Exit{from, reason})
Exit(f, r) == [from |-> f, reason |-> r]

\* the Exit messages the exit of d puts into the mailbox of the live actor s: one if
\* s is a linked peer of d, one if s is a monitor of d
Propagated(d, reason, s) ==
    (IF s \in actors[d].links THEN <<Exit(d, reason)>> ELSE <<>>)
    \o (IF s \in actors[d].monitors THEN <<Exit(d, reason)>> ELSE <<>>)

\* faulty variant of ExitActor: the children of d are left running
ExitActorOrphans(d, cause, reason) ==
    LET live == {s \in Pids \ {d} : IsAlive(s)} IN
    /\ actors' = [s \in Pids |->
                    IF s = d THEN [NoActor EXCEPT !.state = "dead", !.reason = reason,
                                                   !.parent = actors[d].parent]
                    ELSE [actors[s] EXCEPT !.links = @ \ {d}, !.monitors = @ \ {d}]]
    /\ inbox' = [inbox EXCEPT ![d] = 0]
    /\ exits' = [s \in Pids |->
                    IF s \in live THEN exits[s] \o Propagated(d, reason, s) ELSE exits[s]]
    /\ atExit' = [atExit EXCEPT ![d] =
                    [cause |-> cause,
                     linked |-> {s \in live : {d, s} \in seen.linked},
                     watchers |-> {s \in live : <<s, d>> \in seen.monitoring},
                     targets |-> {s \in live : <<d, s>> \in seen.monitoring}]]
    /\ seen' = [seen EXCEPT !.linked = {l \in @ : d \notin l},
                            !.monitoring = {m \in @ : d # m[1] /\ d # m[2]}]
    /\ OnlyRuntime

\* actor d goes not-alive with `reason`: its linked peers and its monitors get
\* Exit{from = d, reason}, its children are stopped, and its control block leaves the
\* table and the peer sets of the others
ExitActor(d, cause, reason) ==
    LET live == {s \in Pids \ {d} : IsAlive(s)} IN
    /\ actors' = [s \in Pids |->
                    IF s = d THEN [NoActor EXCEPT !.state = "dead", !.reason = reason,
                                                   !.parent = actors[d].parent]
                    ELSE [actors[s] EXCEPT !.stop = @ \/ s \in ChildrenOf(d),
                                           !.links = @ \ {d},
                                           !.monitors = @ \ {d}]]
    /\ inbox' = [inbox EXCEPT ![d] = 0]
    /\ exits' = [s \in Pids |->
                    IF s \in live THEN exits[s] \o Propagated(d, reason, s) ELSE exits[s]]
    /\ atExit' = [atExit EXCEPT ![d] =
                    [cause |-> cause,
                     linked |-> {s \in live : {d, s} \in seen.linked},
                     watchers |-> {s \in live : <<s, d>> \in seen.monitoring},
                     targets |-> {s \in live : <<d, s>> \in seen.monitoring}]]
    /\ seen' = [seen EXCEPT !.linked = {l \in @ : d \notin l},
                            !.monitoring = {m \in @ : d # m[1] /\ d # m[2]}]
    /\ OnlyRuntime

\* faulty variant of Shutdown: leaving on a stop counts as a normal return
ShutdownNormal(p) ==
    /\ IsAlive(p)
    /\ ~actors[p].busy
    /\ actors[p].stop
    /\ ExitActor(p, "stop", "Normal")

\* the receive loop of p meets the shutdown, which goes before every user message:
\* the loop exits and p is Killed
Shutdown(p) ==
    /\ IsAlive(p)
    /\ ~actors[p].busy
    /\ actors[p].stop
    /\ ExitActor(p, "stop", "Killed")

\* with no shutdown waiting, the loop of p takes a user message and calls the handler
BeginUser(p) ==
    /\ IsAlive(p)
    /\ ~actors[p].busy
    /\ ~actors[p].stop
    /\ inbox[p] > 0
    /\ inbox' = [inbox EXCEPT ![p] = @ - 1]
    /\ actors' = [actors EXCEPT ![p].busy = TRUE]
    /\ seen' = [seen EXCEPT !.late = @ \cup (IF p \in seen.stopped THEN {p} ELSE {})]
    /\ UNCHANGED <<exits, atExit>>
    /\ OnlyRuntime

\* the handler of a push actor returns: the Python callable returned ("ok"), or it
\* raised ("raised"), the exception was printed and the handler returned as usual
EndUser(p, outcome) ==
    /\ IsAlive(p)
    /\ actors[p].busy
    /\ actors' = [actors EXCEPT ![p].busy = FALSE]
    /\ seen' = [seen EXCEPT !.raised = @ \cup (IF outcome = "raised" THEN {p} ELSE {})]
    /\ UNCHANGED <<inbox, exits, atExit>>
    /\ OnlyRuntime

\* the behavior panics: the panic is caught at the actor boundary and p is not-alive
\* with reason Panic
Crash(p) ==
    /\ IsAlive(p)
    /\ actors[p].busy
    /\ ExitActor(p, "panic", "Panic")

\* the body of an actor spawned with spawn_with_mailbox or spawn_child_with_mailbox
\* returns
Return(p) ==
    /\ IsAlive(p)
    /\ ~actors[p].busy
    /\ ~actors[p].stop
    /\ ExitActor(p, "return", "Normal")

\* what the executor does by itself: the receive loops and the handlers
Scheduled(p) ==
    \/ Shutdown(p)
    \/ BeginUser(p)
    \/ \E o \in {"ok", "raised"} : EndUser(p, o)

NextRuntime ==
    \/ \E p \in Pids, q \in Pids \cup {0} : Spawn(p, q)
    \/ \E p \in Pids : Send(p)
    \/ \E p \in Pids : Stop(p)
    \/ \E a, b \in Pids : Link(a, b)
    \/ \E a, b \in Pids : Unlink(a, b)
    \/ \E a, b \in Pids : Monitor(a, b)
    \/ \E p \in Pids : Shutdown(p)
    \/ \E p \in Pids : BeginUser(p)
    \/ \E p \in Pids, o \in {"ok", "raised"} : EndUser(p, o)
    \/ \E p \in Pids : Crash(p)
    \/ \E p \in Pids : Return(p)

\* ---------------------------------------------------------------- supervisor
MaxPids == 3

SupPids == 1..MaxPids

\* strategy strings as callers write them
StrategyInputs == {"restartone", "RestartAll", "one-for-one"}

\* str::to_lowercase on the strings above
ToLowercase(s) == IF s = "RestartAll" THEN "restartall" ELSE s

\* faulty variant of ParseStrategy: a string that is no strategy counts as RestartOne
ParseStrategyLenient(s) ==
    IF ToLowercase(s) \in {"restartall", "restart_all", "all"} THEN "RestartAll"
    ELSE "RestartOne"

\* the match on the lowercased strategy string
ParseStrategy(s) ==
    IF ToLowercase(s) \in {"restartone", "restart_one", "one"} THEN "RestartOne"
    ELSE IF ToLowercase(s) \in {"restartall", "restart_all", "all"} THEN "RestartAll"
    ELSE "invalid"

\* ChildSpec: the factory is the closure of watch, which returns the PID it was built
\* with ("same"), or a Python callable that spawns an actor and returns its PID, or
\* fails ("py")
ChildSpec(f, s) == [factory |-> f, strategy |-> s]

\* the supervisor's map without the entry of p
RemoveChild(m, p) == [k \in DOMAIN m \ {p} |-> m[k]]

\* the supervisor's map with the entry p -> spec added or replaced
AddChild(m, p, spec) == [k \in DOMAIN m \cup {p} |-> IF k = p THEN spec ELSE m[k]]

\* Supervisor::children_count and Supervisor::child_pids
ChildrenCount == Cardinality(DOMAIN children)
ChildPids == DOMAIN children

\* what the call or the exit handled last was given, what it returned, how often it
\* called a factory, and what it found
SupDone(op, pid, result, calls, returned, strategy) ==
    [op |-> op, pid |-> pid, result |-> result, calls |-> calls, returned |-> returned,
     strategy |-> strategy, before |-> children, liveBefore |-> supLive,
     pathBefore |-> pathChildren]

SupervisorInit ==
    /\ supLive = {}
    /\ supNextPid = 1
    /\ children = << >>
    /\ pathChildren = {}
    /\ supLast = [op |-> "new", pid |-> 0, result |-> "ok", calls |-> 0, returned |-> 0,
                  strategy |-> "", before |-> << >>, liveBefore |-> {},
                  pathBefore |-> {}]

\* PyRuntime::spawn_observed_handler
SpawnObservedHandler ==
    /\ supNextPid <= MaxPids
    /\ supLive' = supLive \cup {supNextPid}
    /\ supNextPid' = supNextPid + 1
    /\ supLast' = SupDone("spawn", supNextPid, "ok", 0, supNextPid, "")
    /\ UNCHANGED <<children, pathChildren>>
    /\ OnlySupervisor

\* PyRuntime::watch: a strategy string that does not parse is an error; otherwise the
\* PID is supervised with a factory that returns this very PID
Watch(pid, strategy) ==
    /\ pid < supNextPid
    /\ IF ParseStrategy(strategy) = "invalid"
       THEN /\ supLast' = SupDone("watch", pid, "err", 0, 0, strategy)
            /\ UNCHANGED children
       ELSE /\ children' = AddChild(children, pid, ChildSpec("same", ParseStrategy(strategy)))
            /\ supLast' = SupDone("watch", pid, "ok", 0, 0, strategy)
    /\ UNCHANGED <<supLive, supNextPid, pathChildren>>
    /\ OnlySupervisor

\* faulty variant of SuperviseWithFactory: the PID of the first factory call is the
\* one supervised
SuperviseInitialPid(pid, strategy, outcome) ==
    /\ pid < supNextPid
    /\ IF ParseStrategy(strategy) = "invalid"
       THEN /\ supLast' = SupDone("supervise", pid, "err", 0, 0, strategy)
            /\ UNCHANGED <<supLive, supNextPid, children>>
       ELSE IF outcome = "err"
       THEN /\ supLast' = SupDone("supervise", pid, "err", 1, 0, strategy)
            /\ UNCHANGED <<supLive, supNextPid, children>>
       ELSE /\ supNextPid <= MaxPids
            /\ supLive' = supLive \cup {supNextPid}
            /\ supNextPid' = supNextPid + 1
            /\ children' = AddChild(children, supNextPid, ChildSpec("py", ParseStrategy(strategy)))
            /\ supLast' = SupDone("supervise", pid, "ok", 1, supNextPid, strategy)
    /\ UNCHANGED pathChildren
    /\ OnlySupervisor

\* PyRuntime::supervise_with_factory: the strategy is parsed, the factory is called
\* once and its PID dropped (a failure of that call is the error of the whole call),
\* then the PID is supervised with the factory
SuperviseWithFactory(pid, strategy, outcome) ==
    /\ pid < supNextPid
    /\ IF ParseStrategy(strategy) = "invalid"
       THEN /\ supLast' = SupDone("supervise", pid, "err", 0, 0, strategy)
            /\ UNCHANGED <<supLive, supNextPid, children>>
       ELSE IF outcome = "err"
       THEN /\ supLast' = SupDone("supervise", pid, "err", 1, 0, strategy)
            /\ UNCHANGED <<supLive, supNextPid, children>>
       ELSE /\ supNextPid <= MaxPids
            /\ supLive' = supLive \cup {supNextPid}
            /\ supNextPid' = supNextPid + 1
            /\ children' = AddChild(children, pid, ChildSpec("py", ParseStrategy(strategy)))
            /\ supLast' = SupDone("supervise", pid, "ok", 1, supNextPid, strategy)
    /\ UNCHANGED pathChildren
    /\ OnlySupervisor

\* PyRuntime::path_supervise_with_factory on one path: as supervise_with_factory, but
\* the PID is supervised by the supervisor of the path
PathSuperviseWithFactory(pid, strategy, outcome) ==
    /\ pid < supNextPid
    /\ IF ParseStrategy(strategy) = "invalid"
       THEN /\ supLast' = SupDone("path_supervise", pid, "err", 0, 0, strategy)
            /\ UNCHANGED <<supLive, supNextPid, pathChildren>>
       ELSE IF outcome = "err"
       THEN /\ supLast' = SupDone("path_supervise", pid, "err", 1, 0, strategy)
            /\ UNCHANGED <<supLive, supNextPid, pathChildren>>
       ELSE /\ supNextPid <= MaxPids
            /\ supLive' = supLive \cup {supNextPid}
            /\ supNextPid' = supNextPid + 1
            /\ pathChildren' = pathChildren \cup {pid}
            /\ supLast' = SupDone("path_supervise", pid, "ok", 1, supNextPid, strategy)
    /\ UNCHANGED children
    /\ OnlySupervisor

\* the number of keys of S below k
Rank(k, S) == Cardinality({j \in S : j < k})

\* RestartOne for the exited child d: the factory is called once; on success the
\* entry moves to the PID it returned, on failure the entry is removed
RestartOne(d, outcome) ==
    /\ children[d].strategy = "RestartOne"
    /\ IF children[d].factory = "same"
       THEN /\ supLive' = supLive \ {d}
            /\ supLast' = SupDone("exit", d, "ok", 1, d, "")
            /\ UNCHANGED <<children, supNextPid>>
       ELSE IF outcome = "err"
       THEN /\ supLive' = supLive \ {d}
            /\ children' = RemoveChild(children, d)
            /\ supLast' = SupDone("exit", d, "err", 1, 0, "")
            /\ UNCHANGED supNextPid
       ELSE /\ supNextPid <= MaxPids
            /\ supLive' = (supLive \ {d}) \cup {supNextPid}
            /\ supNextPid' = supNextPid + 1
            /\ children' = AddChild(RemoveChild(children, d), supNextPid, children[d])
            /\ supLast' = SupDone("exit", d, "ok", 1, supNextPid, "")

\* RestartAll for the exited child d: every sibling is stopped and re-created with
\* its factory; the entries whose factory failed are removed
RestartAll(d, outcome) ==
    LET keys == DOMAIN children
        made == {k \in keys : children[k].factory = "py" /\ outcome = "ok"}
        kept == {k \in keys : children[k].factory = "same"}
        NewPid(k) == IF k \in kept THEN k ELSE supNextPid + Rank(k, made)
        news == {NewPid(k) : k \in made}
    IN
    /\ children[d].strategy = "RestartAll"
    /\ supNextPid + Cardinality(made) <= MaxPids + 1
    /\ supLive' = (supLive \ ({d} \cup keys)) \cup news
    /\ supNextPid' = supNextPid + Cardinality(made)
    /\ children' = [q \in kept \cup news |->
                       children[CHOOSE k \in kept \cup made : NewPid(k) = q]]
    /\ supLast' = SupDone("exit", d, outcome, Cardinality(keys), 0, "")

\* an actor that no path supervisor holds exits (PyRuntime::stop, or its own end); if
\* it is supervised the supervisor applies the strategy of its child spec
ExitSupervised(d, outcome) ==
    /\ d \in supLive
    /\ d \notin pathChildren
    /\ IF d \in DOMAIN children
       THEN RestartOne(d, outcome) \/ RestartAll(d, outcome)
       ELSE /\ outcome = "ok"
            /\ supLive' = supLive \ {d}
            /\ supLast' = SupDone("exit", d, "ok", 0, 0, "")
            /\ UNCHANGED <<children, supNextPid>>
    /\ UNCHANGED pathChildren
    /\ OnlySupervisor

NextSupervisor ==
    \/ SpawnObservedHandler
    \/ \E p \in SupPids, s \in StrategyInputs : Watch(p, s)
    \/ \E p \in SupPids, s \in StrategyInputs, o \in {"ok", "err"} :
          SuperviseWithFactory(p, s, o)
    \/ \E p \in SupPids, s \in StrategyInputs, o \in {"ok", "err"} :
          PathSuperviseWithFactory(p, s, o)
    \/ \E p \in SupPids, o \in {"ok", "err"} : ExitSupervised(p, o)

\* ------------------------------------------- budget, observed actor, timers
MaxActorMsgs == 3
MaxTimers == 1

Budgets == {1, 2}

\* PID 1 is the observed actor, PID 2 is never handed out
ActorPids == {1, 2}

\* the result of Runtime::send
Ok == "ok"

ActorInit ==
    /\ actor = [state |-> "none", budget |-> 0, run |-> 0,
                usr |-> <<>>, sys |-> <<>>, observed |-> <<>>]
    /\ timers = <<>>
    /\ actorLog = [next |-> 1, dispatched |-> <<>>, taken |-> {}, streak |-> 0,
                   cancelled |-> {},
                   last |-> [op |-> "new", arg |-> 0, res |-> Ok]]

ActorAlive(pid) == pid = 1 /\ actor.state = "alive"

\* the call or step that just ended: what it was given and what it returned
ActorDone(op, arg, res) == [op |-> op, arg |-> arg, res |-> res]

\* PyRuntime::spawn_observed_handler(budget)
SpawnObserved(n) ==
    /\ actor.state = "none"
    /\ actor' = [actor EXCEPT !.state = "alive", !.budget = n]
    /\ actorLog' = [actorLog EXCEPT !.last = ActorDone("spawn", n, Ok)]
    /\ UNCHANGED timers
    /\ OnlyActor

\* faulty variant of ActorSend: a PID that names no live actor is an error
ActorSendErr(pid, body) ==
    /\ actorLog.next <= MaxActorMsgs
    /\ IF ActorAlive(pid)
       THEN /\ actor' = [actor EXCEPT !.usr = Append(@, Message("User", body, 0, actorLog.next))]
            /\ actorLog' = [actorLog EXCEPT !.next = @ + 1,
                                            !.last = ActorDone("send", pid, Ok)]
       ELSE /\ actorLog' = [actorLog EXCEPT !.last = ActorDone("send", pid, "err")]
            /\ UNCHANGED actor
    /\ UNCHANGED timers
    /\ OnlyActor

\* PyRuntime::send: Runtime::send enqueues User(body) for a live actor; for a PID
\* that names no live actor it returns Ok and does nothing
ActorSend(pid, body) ==
    /\ actorLog.next <= MaxActorMsgs
    /\ IF ActorAlive(pid)
       THEN /\ actor' = [actor EXCEPT !.usr = Append(@, Message("User", body, 0, actorLog.next))]
            /\ actorLog' = [actorLog EXCEPT !.next = @ + 1,
                                            !.last = ActorDone("send", pid, Ok)]
       ELSE /\ actorLog' = [actorLog EXCEPT !.last = ActorDone("send", pid, Ok)]
            /\ UNCHANGED actor
    /\ UNCHANGED timers
    /\ OnlyActor

\* a linked peer exits: System(Exit) goes into the mailbox of the actor
ExitArrives ==
    /\ ActorAlive(1)
    /\ actorLog.next <= MaxActorMsgs
    /\ actor' = [actor EXCEPT !.sys = Append(@, Message("System", "x", 2, actorLog.next))]
    /\ actorLog' = [actorLog EXCEPT !.next = @ + 1, !.last = ActorDone("exit", 2, Ok)]
    /\ UNCHANGED timers
    /\ OnlyActor

\* faulty variant of DispatchSystem: only user messages are observed
DispatchSystemUnobserved ==
    /\ ActorAlive(1)
    /\ actor.sys # <<>>
    /\ actor' = [actor EXCEPT !.sys = Tail(@)]
    /\ actorLog' = [actorLog EXCEPT !.dispatched = Append(@, Head(actor.sys)),
                                    !.last = ActorDone("system", 1, Ok)]
    /\ UNCHANGED timers
    /\ OnlyActor

\* the receive loop dispatches a system message: the observed actor appends it to its
\* list; the budget is not touched
DispatchSystem ==
    /\ ActorAlive(1)
    /\ actor.sys # <<>>
    /\ actor' = [actor EXCEPT !.sys = Tail(@), !.observed = Append(@, Head(actor.sys))]
    /\ actorLog' = [actorLog EXCEPT !.dispatched = Append(@, Head(actor.sys)),
                                    !.last = ActorDone("system", 1, Ok)]
    /\ UNCHANGED timers
    /\ OnlyActor

\* faulty variant of DispatchUser: the budget is not looked at
DispatchUserUnbudgeted ==
    /\ ActorAlive(1)
    /\ actor.sys = <<>>
    /\ actor.usr # <<>>
    /\ actor' = [actor EXCEPT !.usr = Tail(@), !.observed = Append(@, Head(actor.usr)),
                              !.run = @ + 1]
    /\ actorLog' = [actorLog EXCEPT !.dispatched = Append(@, Head(actor.usr)),
                                    !.streak = @ + 1,
                                    !.last = ActorDone("user", 1, Ok)]
    /\ UNCHANGED timers
    /\ OnlyActor

\* the receive loop dispatches a user message, which takes one unit of the budget;
\* with the budget used up the loop yields first
DispatchUser ==
    /\ ActorAlive(1)
    /\ actor.sys = <<>>
    /\ actor.usr # <<>>
    /\ actor.run < actor.budget
    /\ actor' = [actor EXCEPT !.usr = Tail(@), !.observed = Append(@, Head(actor.usr)),
                              !.run = @ + 1]
    /\ actorLog' = [actorLog EXCEPT !.dispatched = Append(@, Head(actor.usr)),
                                    !.streak = @ + 1,
                                    !.last = ActorDone("user", 1, Ok)]
    /\ UNCHANGED timers
    /\ OnlyActor

\* the loop yields to the executor: after `budget` user messages in a row, or when it
\* waits for a message with the mailbox empty
Yield ==
    /\ ActorAlive(1)
    /\ actor.run > 0
    /\ actor.run = actor.budget \/ (actor.sys = <<>> /\ actor.usr = <<>>)
    /\ actor' = [actor EXCEPT !.run = 0]
    /\ actorLog' = [actorLog EXCEPT !.streak = 0, !.last = ActorDone("yield", 1, Ok)]
    /\ UNCHANGED timers
    /\ OnlyActor

\* the index of the first message of q whose body is in P, 0 if there is none
FirstWithBody(P, q) ==
    IF \E i \in 1..Len(q) : q[i].body \in P
    THEN CHOOSE i \in 1..Len(q) : q[i].body \in P /\ \A j \in 1..(i - 1) : q[j].body \notin P
    ELSE 0

\* PyRuntime::selective_recv_observed_py, one round of its loop:
\* take_observed_message_matching removes the first message the matcher accepts from
\* the observed list and returns it
TakeObserved(P) ==
    /\ ActorAlive(1)
    /\ IF FirstWithBody(P, actor.observed) = 0
       THEN /\ actorLog' = [actorLog EXCEPT !.last = ActorDone("take", 1, "none")]
            /\ UNCHANGED actor
       ELSE /\ actor' = [actor EXCEPT !.observed = RemoveAt(@, FirstWithBody(P, @))]
            /\ actorLog' = [actorLog EXCEPT
                              !.taken = @ \cup {actor.observed[FirstWithBody(P, actor.observed)].id},
                              !.last = ActorDone("take", 1, Ok)]
    /\ UNCHANGED timers
    /\ OnlyActor

\* PyRuntime::stop and the exit that follows: the mailbox goes away with the actor
StopObserved ==
    /\ ActorAlive(1)
    /\ actor' = [actor EXCEPT !.state = "dead", !.usr = <<>>, !.sys = <<>>, !.run = 0]
    /\ actorLog' = [actorLog EXCEPT !.streak = 0, !.last = ActorDone("stop", 1, Ok)]
    /\ UNCHANGED timers
    /\ OnlyActor

\* PyRuntime::send_after: a one-shot timer is armed and its id returned
SendAfter(pid) ==
    /\ Len(timers) < MaxTimers
    /\ timers' = Append(timers, [state |-> "armed", target |-> pid, body |-> "t", fired |-> 0])
    /\ actorLog' = [actorLog EXCEPT !.last = ActorDone("send_after", pid, Len(timers) + 1)]
    /\ UNCHANGED actor
    /\ OnlyActor

\* faulty variant of TimerFires: a disarmed timer fires all the same
TimerFiresAnyway(id) ==
    /\ id \in DOMAIN timers
    /\ timers[id].state \in {"armed", "cancelled"}
    /\ actorLog.next <= MaxActorMsgs
    /\ timers' = [timers EXCEPT ![id].state = "fired",
                                ![id].fired = @ + (IF ActorAlive(timers[id].target) THEN 1 ELSE 0)]
    /\ IF ActorAlive(timers[id].target)
       THEN /\ actor' = [actor EXCEPT !.usr = Append(@, Message("User", timers[id].body, 0, actorLog.next))]
            /\ actorLog' = [actorLog EXCEPT !.next = @ + 1, !.last = ActorDone("fire", id, Ok)]
       ELSE /\ actorLog' = [actorLog EXCEPT !.last = ActorDone("fire", id, Ok)]
            /\ UNCHANGED actor
    /\ OnlyActor

\* the delay of an armed timer elapses: User(payload) goes into the mailbox of the
\* target, or nowhere if the target has exited
TimerFires(id) ==
    /\ id \in DOMAIN timers
    /\ timers[id].state = "armed"
    /\ actorLog.next <= MaxActorMsgs
    /\ timers' = [timers EXCEPT ![id].state = "fired",
                                ![id].fired = @ + (IF ActorAlive(timers[id].target) THEN 1 ELSE 0)]
    /\ IF ActorAlive(timers[id].target)
       THEN /\ actor' = [actor EXCEPT !.usr = Append(@, Message("User", timers[id].body, 0, actorLog.next))]
            /\ actorLog' = [actorLog EXCEPT !.next = @ + 1, !.last = ActorDone("fire", id, Ok)]
       ELSE /\ actorLog' = [actorLog EXCEPT !.last = ActorDone("fire", id, Ok)]
            /\ UNCHANGED actor
    /\ OnlyActor

\* PyRuntime::cancel_timer: true if the timer was armed, and then it is disarmed
CancelTimer(id) ==
    /\ IF id \in DOMAIN timers /\ timers[id].state = "armed"
       THEN /\ timers' = [timers EXCEPT ![id].state = "cancelled"]
            /\ actorLog' = [actorLog EXCEPT !.cancelled = @ \cup {id},
                                            !.last = ActorDone("cancel", id, TRUE)]
       ELSE /\ actorLog' = [actorLog EXCEPT !.last = ActorDone("cancel", id, FALSE)]
            /\ UNCHANGED timers
    /\ UNCHANGED actor
    /\ OnlyActor

NextActor ==
    \/ \E n \in Budgets : SpawnObserved(n)
    \/ \E pid \in ActorPids, b \in Bodies : ActorSend(pid, b)
    \/ ExitArrives
    \/ DispatchSystem
    \/ DispatchUser
    \/ Yield
    \/ \E P \in {{"a"}, {"x"}} : TakeObserved(P)
    \/ StopObserved
    \/ \E pid \in ActorPids : SendAfter(pid)
    \/ \E id \in 1..MaxTimers : TimerFires(id)
    \/ \E id \in 1..MaxTimers : CancelTimer(id)

\* ------------------------------------------------------------ network
MaxConns == 2

\* the actors of the listening node: 1 is alive, 2 has exited
NetPids == {1, 2}
NetLive == {1}

\* names as UTF-8 bytes: "a", "b"
NetNames == {<<97>>, <<98>>}

\* a stretch of 2^32 bytes in a payload whose first byte is `lead`, as one element of a
\* byte sequence; every other element is one byte
Run(lead) == 1000 + lead
IsRun(e) == e >= 1000

\* payloads: empty, two bytes, and one of 2^32 + 1 bytes
Payloads == {<<>>, <<7, 9>>, <<7, Run(255)>>}

\* Bytes::len as <<multiples of 2^32, rest>>
Size(data) ==
    <<Cardinality({i \in 1..Len(data) : IsRun(data[i])}),
      Cardinality({i \in 1..Len(data) : ~IsRun(data[i])})>>

\* `as u32`: the value modulo 2^32
AsU32(size) == size[2]

\* byte k of n, counted from the least significant; the values handled are below 2^31
Digit(n, k) == IF k >= 4 THEN 0 ELSE (n \div (256 ^ k)) % 256

\* put_u64 / put_u32 / to_be_bytes: n in w bytes, big-endian
BE(n, w) == [i \in 1..w |-> Digit(n, w - i)]

\* get_u64 / get_u32 / from_be_bytes
RECURSIVE FromBE(_)
FromBE(s) == IF s = <<>> THEN 0 ELSE FromBE(SubSeq(s, 1, Len(s) - 1)) * 256 + s[Len(s)]

\* the frame send_remote writes: opcode 0, pid, len, payload
SendFrame(pid, data) == <<0>> \o BE(pid, 8) \o BE(AsU32(Size(data)), 4) \o data

\* the frame resolve_remote writes: opcode 1, len, name
ResolveFrame(name) == <<1>> \o BE(AsU32(Size(name)), 4) \o name

\* what a client that speaks the protocol badly may write: an unknown opcode before a
\* good frame, a send frame cut short, a monitor request (opcode 2, pid) before a good
\* frame, and a good frame before an unknown opcode
RawInputs ==
    { <<9>> \o SendFrame(1, <<7, 9>>),
      SubSeq(SendFrame(1, <<7, 9>>), 1, 6),
      <<2>> \o BE(1, 8) \o SendFrame(1, <<7, 9>>),
      SendFrame(1, <<7, 9>>) \o <<9>> \o SendFrame(1, <<>>) }

\* a connection: what the client asked, the bytes on their way to the server, whether
\* the client has closed its side, the bytes written back, the state of the server
\* task, and what the task has read, delivered and looked up so far
NewConn(kind, pid, data, inp, eof) ==
    [kind |-> kind, pid |-> pid, data |-> data, inp |-> inp, eof |-> eof, out |-> <<>>,
     task |-> "serving", heads |-> <<>>, got |-> <<>>, found |-> <<>>, result |-> <<>>]

NetworkInit ==
    /\ conns = <<>>
    /\ node = [listening |-> TRUE, names |-> << >>, box |-> [p \in NetLive |-> <<>>]]

\* Runtime::register / unregister on the listening node
NetRegister(name, pid) ==
    /\ node' = [node EXCEPT !.names =
                   IF pid = 0 THEN Remove(@, name) ELSE Insert(@, name, pid)]
    /\ node.names # node'.names
    /\ UNCHANGED conns
    /\ OnlyNetwork

\* NetworkManager::send_remote: connect, write the frame, drop the stream
SendRemote(pid, data) ==
    /\ Len(conns) < MaxConns
    /\ node.listening
    /\ conns' = Append(conns, NewConn("send", pid, data, SendFrame(pid, data), TRUE))
    /\ UNCHANGED node
    /\ OnlyNetwork

\* NetworkManager::resolve_remote, first half: connect and write the request
ResolveRemote(name) ==
    /\ Len(conns) < MaxConns
    /\ node.listening
    /\ conns' = Append(conns, NewConn("resolve", 0, name, ResolveFrame(name), FALSE))
    /\ UNCHANGED node
    /\ OnlyNetwork

\* NetworkManager::resolve_remote, second half: read_exact of the 8 bytes of the PID,
\* then the stream is dropped
ResolveReturns(c) ==
    /\ c \in DOMAIN conns
    /\ conns[c].kind = "resolve"
    /\ conns[c].result = <<>>
    /\ Len(conns[c].out) >= 8
    /\ conns' = [conns EXCEPT ![c].result = <<FromBE(SubSeq(conns[c].out, 1, 8))>>,
                              ![c].out = SubSeq(@, 9, Len(@)),
                              ![c].eof = TRUE]
    /\ UNCHANGED node
    /\ OnlyNetwork

\* a client of its own making connects, writes bytes and either drops the stream or
\* keeps it open
RawConnect(bytes, eof) ==
    /\ Len(conns) < MaxConns
    /\ node.listening
    /\ conns' = Append(conns, NewConn("raw", 0, <<>>, bytes, eof))
    /\ UNCHANGED node
    /\ OnlyNetwork

\* the first byte of what is left to read
HeadByte(inp) == IF IsRun(inp[1]) THEN inp[1] - 1000 ELSE inp[1]

\* how many bytes the frame that starts inp needs after the opcode, as far as the bytes
\* read so far tell: the header, then the header and the body
Needs(inp) ==
    LET hdr == IF HeadByte(inp) = 0 THEN 12 ELSE 4 IN
    IF Len(inp) < 1 + hdr THEN hdr
    ELSE hdr + FromBE(SubSeq(inp, 2 + hdr - 4, 1 + hdr))

\* faulty variant of Resolved: a live PID stands for an unknown name
ResolvedOrFirst(map, name) == IF Get(map, name) = None THEN 1 ELSE Get(map, name)[1]

\* rt.resolve(&name).unwrap_or(0)
Resolved(map, name) == IF Get(map, name) = None THEN 0 ELSE Get(map, name)[1]

\* Runtime::send on the listening node: enqueue for a live actor, nothing otherwise
Deliver(box, pid, data) ==
    IF pid \in DOMAIN box THEN [box EXCEPT ![pid] = Append(@, data)] ELSE box

\* faulty variant of ServeFrame: an unknown opcode is skipped and the loop goes on
ServeFrameSkip(c) ==
    /\ c \in DOMAIN conns
    /\ conns[c].task = "serving"
    /\ LET k == conns[c]
           inp == k.inp
       IN
       IF inp = <<>>
       THEN /\ k.eof
            /\ conns' = [conns EXCEPT ![c].task = "ended"]
            /\ UNCHANGED node
       ELSE IF HeadByte(inp) \notin {0, 1}
       THEN /\ conns' = [conns EXCEPT ![c].inp = Tail(inp),
                                      ![c].heads = Append(@, HeadByte(inp))]
            /\ UNCHANGED node
       ELSE IF Len(inp) < 1 + Needs(inp)
       THEN /\ k.eof
            /\ conns' = [conns EXCEPT ![c].task = "panicked",
                                      ![c].heads = Append(@, HeadByte(inp))]
            /\ UNCHANGED node
       ELSE IF HeadByte(inp) = 0
       THEN LET pid == FromBE(SubSeq(inp, 2, 9))
                data == SubSeq(inp, 14, 1 + Needs(inp))
            IN
            /\ node' = [node EXCEPT !.box = Deliver(@, pid, data)]
            /\ conns' = [conns EXCEPT ![c].inp = SubSeq(inp, 2 + Needs(inp), Len(inp)),
                                      ![c].heads = Append(@, 0),
                                      ![c].got = Append(@, <<pid, data>>)]
       ELSE LET name == SubSeq(inp, 6, 1 + Needs(inp))
                pid == Resolved(node.names, name)
            IN
            /\ conns' = [conns EXCEPT ![c].inp = SubSeq(inp, 2 + Needs(inp), Len(inp)),
                                      ![c].heads = Append(@, 1),
                                      ![c].out = @ \o BE(pid, 8),
                                      ![c].found = Append(@, Get(node.names, name))]
            /\ UNCHANGED node
    /\ OnlyNetwork

\* one round of the loop of a connection task in start_server: read_exact of the
\* opcode (the loop ends when the client has closed), then by opcode: 0 reads pid, len
\* and payload and sends User(payload) to pid; 1 reads len and name and writes the PID
\* the name resolves to, or 0; any other opcode breaks the loop.  A read_exact that
\* meets the end of the stream inside a frame is an unwrap on Err: the task panics.
ServeFrame(c) ==
    /\ c \in DOMAIN conns
    /\ conns[c].task = "serving"
    /\ LET k == conns[c]
           inp == k.inp
       IN
       IF inp = <<>>
       THEN /\ k.eof
            /\ conns' = [conns EXCEPT ![c].task = "ended"]
            /\ UNCHANGED node
       ELSE IF HeadByte(inp) \notin {0, 1}
       THEN /\ conns' = [conns EXCEPT ![c].task = "ended",
                                      ![c].heads = Append(@, HeadByte(inp))]
            /\ UNCHANGED node
       ELSE IF Len(inp) < 1 + Needs(inp)
       THEN /\ k.eof
            /\ conns' = [conns EXCEPT ![c].task = "panicked",
                                      ![c].heads = Append(@, HeadByte(inp))]
            /\ UNCHANGED node
       ELSE IF HeadByte(inp) = 0
       THEN LET pid == FromBE(SubSeq(inp, 2, 9))
                data == SubSeq(inp, 14, 1 + Needs(inp))
            IN
            /\ node' = [node EXCEPT !.box = Deliver(@, pid, data)]
            /\ conns' = [conns EXCEPT ![c].inp = SubSeq(inp, 2 + Needs(inp), Len(inp)),
                                      ![c].heads = Append(@, 0),
                                      ![c].got = Append(@, <<pid, data>>)]
       ELSE LET name == SubSeq(inp, 6, 1 + Needs(inp))
                pid == Resolved(node.names, name)
            IN
            /\ conns' = [conns EXCEPT ![c].inp = SubSeq(inp, 2 + Needs(inp), Len(inp)),
                                      ![c].heads = Append(@, 1),
                                      ![c].out = @ \o BE(pid, 8),
                                      ![c].found = Append(@, Get(node.names, name))]
            /\ UNCHANGED node
    /\ OnlyNetwork

NextNetwork ==
    \/ \E n \in NetNames, p \in NetPids \cup {0} : NetRegister(n, p)
    \/ \E p \in NetPids, d \in Payloads : SendRemote(p, d)
    \/ \E n \in NetNames : ResolveRemote(n)
    \/ \E c \in 1..MaxConns : ResolveReturns(c)
    \/ \E b \in RawInputs, e \in BOOLEAN : RawConnect(b, e)
    \/ \E c \in 1..MaxConns : ServeFrame(c)

\* ------------------------------------------------------- shared mailbox
MaxShared == 3

\* the threads that call recv / selective_recv on clones of one PyMailbox
Callers == {1, 2}

\* the threads that send through clones of one MailboxSender
ShSenders == {1, 2}

\* the predicates of selective_recv, as the set of message ids they accept
ShPreds == {{2}}

\* the mailbox is bounded_channel(ShCap)
ShCap == 1

Idle == [pc |-> "idle", op |-> "none", pred |-> {}, msg |-> 0]

SharedInit ==
    /\ shBox = [cap |-> ShCap, usr |-> <<>>, stash |-> <<>>, counter |-> 0, tx |-> TRUE]
    /\ shLock = 0
    /\ shSend = [s \in ShSenders |-> [pc |-> "idle", msg |-> 0]]
    /\ shCall = [c \in Callers |-> Idle]
    /\ shLog = [next |-> 1, accepted |-> {}, returned |-> <<>>, lost |-> {}]

\* faulty variant of SendFetchAdd: the counter is left alone
SendFetchAddMissing(s) ==
    /\ shBox.tx
    /\ shSend[s].pc = "idle"
    /\ shLog.next <= MaxShared
    /\ shSend' = [shSend EXCEPT ![s] = [pc |-> "added", msg |-> shLog.next]]
    /\ shLog' = [shLog EXCEPT !.next = @ + 1]
    /\ UNCHANGED <<shBox, shLock, shCall>>
    /\ OnlyShared

\* MailboxSender::send(User), first step: counter.fetch_add(1)
SendFetchAdd(s) ==
    /\ shBox.tx
    /\ shSend[s].pc = "idle"
    /\ shLog.next <= MaxShared
    /\ shBox' = [shBox EXCEPT !.counter = @ + 1]
    /\ shSend' = [shSend EXCEPT ![s] = [pc |-> "added", msg |-> shLog.next]]
    /\ shLog' = [shLog EXCEPT !.next = @ + 1]
    /\ UNCHANGED <<shLock, shCall>>
    /\ OnlyShared

\* MailboxSender::send(User), second step: tx.send / tx.try_send; a full bounded
\* channel refuses the message
SendEnqueue(s) ==
    /\ shSend[s].pc = "added"
    /\ IF shBox.cap = 0 \/ Len(shBox.usr) < shBox.cap
       THEN /\ shBox' = [shBox EXCEPT !.usr = Append(@, shSend[s].msg)]
            /\ shSend' = [shSend EXCEPT ![s] = [pc |-> "idle", msg |-> 0]]
            /\ shLog' = [shLog EXCEPT !.accepted = @ \cup {shSend[s].msg}]
       ELSE /\ shSend' = [shSend EXCEPT ![s].pc = "failed"]
            /\ UNCHANGED <<shBox, shLog>>
    /\ UNCHANGED <<shLock, shCall>>
    /\ OnlyShared

\* MailboxSender::send(User), after a refused enqueue: counter.fetch_sub(1), Err(msg)
SendRollback(s) ==
    /\ shSend[s].pc = "failed"
    /\ shBox' = [shBox EXCEPT !.counter = @ - 1]
    /\ shSend' = [shSend EXCEPT ![s] = [pc |-> "idle", msg |-> 0]]
    /\ UNCHANGED <<shLock, shCall, shLog>>
    /\ OnlyShared

\* every clone of the MailboxSender is dropped, none of them inside a send
ShDropSenders ==
    /\ shBox.tx
    /\ \A s \in ShSenders : shSend[s].pc = "idle"
    /\ shBox' = [shBox EXCEPT !.tx = FALSE]
    /\ UNCHANGED <<shLock, shSend, shCall, shLog>>
    /\ OnlyShared

\* PyMailbox::recv / selective_recv is called: the first slice starts and its future
\* awaits the mutex
ShCall(c, op, P) ==
    /\ shCall[c].pc = "idle"
    /\ shCall' = [shCall EXCEPT ![c] = [pc |-> "locking", op |-> op, pred |-> P, msg |-> 0]]
    /\ UNCHANGED <<shBox, shLock, shSend, shLog>>
    /\ OnlyShared

\* rx.lock().await is granted
ShLock(c) ==
    /\ shCall[c].pc = "locking"
    /\ shLock = 0
    /\ shLock' = c
    /\ shCall' = [shCall EXCEPT ![c].pc = "polling"]
    /\ UNCHANGED <<shBox, shSend, shLog>>
    /\ OnlyShared

\* the call of c returns to Python with `res` and drops the guard
ShReturn(c, res) ==
    /\ shLock' = IF shLock = c THEN 0 ELSE shLock
    /\ shCall' = [shCall EXCEPT ![c] = Idle]
    /\ shLog' = IF res = 0
                THEN [shLog EXCEPT !.lost = @ \cup (shLog.accepted \ Range(shLog.returned))]
                ELSE [shLog EXCEPT !.returned = Append(@, res)]

\* one poll of MailboxReceiver::recv or selective_recv under the guard: a message is
\* taken out of the stash (recv: its front; selective_recv: the first the predicate
\* accepts) or out of the user channel, a message the predicate rejects is moved to
\* the stash, or the closed system channel ends the call with None.  No system
\* message is sent to this mailbox.
ShPoll(c) ==
    LET k == shCall[c]
        b == shBox
        inStash == {i \in 1..Len(b.stash) : k.op = "recv" \/ b.stash[i] \in k.pred}
    IN
    /\ k.pc = "polling"
    /\ IF inStash # {}
       THEN LET i == CHOOSE i \in inStash : \A j \in inStash : i <= j IN
            /\ shBox' = [b EXCEPT !.stash = RemoveAt(b.stash, i)]
            /\ shCall' = [shCall EXCEPT ![c].pc = "taken", ![c].msg = b.stash[i]]
            /\ UNCHANGED <<shLock, shLog>>
       ELSE IF ~b.tx
       THEN ShReturn(c, 0) /\ UNCHANGED shBox
       ELSE /\ b.usr # <<>>
            /\ IF k.op = "recv" \/ Head(b.usr) \in k.pred
               THEN /\ shBox' = [b EXCEPT !.usr = Tail(@)]
                    /\ shCall' = [shCall EXCEPT ![c].pc = "taken", ![c].msg = Head(b.usr)]
               ELSE /\ shBox' = [b EXCEPT !.usr = Tail(@), !.stash = Append(@, Head(b.usr))]
                    /\ UNCHANGED shCall
            /\ UNCHANGED <<shLock, shLog>>
    /\ UNCHANGED shSend
    /\ OnlyShared

\* the receive that took a user message: counter.fetch_sub(1), then Some(msg)
ShFetchSub(c) ==
    /\ shCall[c].pc = "taken"
    /\ shBox' = [shBox EXCEPT !.counter = @ - 1]
    /\ ShReturn(c, shCall[c].msg)
    /\ UNCHANGED shSend
    /\ OnlyShared

\* tokio::time::timeout ends a slice: the future is dropped where it awaits (the mutex
\* or the channels) with its guard; the Python call starts another slice or gives up
ShSliceTimeout(c, again) ==
    /\ shCall[c].pc \in {"locking", "polling"}
    /\ shCall[c].pc = "polling" => shBox.tx /\ shBox.usr = <<>>
    /\ shLock' = IF shLock = c THEN 0 ELSE shLock
    /\ shCall' = [shCall EXCEPT ![c] = IF again THEN [@ EXCEPT !.pc = "locking"]
                                       ELSE Idle]
    /\ UNCHANGED <<shBox, shSend, shLog>>
    /\ OnlyShared

NextShared ==
    \/ \E s \in ShSenders : SendFetchAdd(s)
    \/ \E s \in ShSenders : SendEnqueue(s)
    \/ \E s \in ShSenders : SendRollback(s)
    \/ ShDropSenders
    \/ \E c \in Callers : ShCall(c, "recv", {})
    \/ \E c \in Callers, P \in ShPreds : ShCall(c, "selective_recv", P)
    \/ \E c \in Callers : ShLock(c)
    \/ \E c \in Callers : ShPoll(c)
    \/ \E c \in Callers : ShFetchSub(c)
    \/ \E c \in Callers, again \in BOOLEAN : ShSliceTimeout(c, again)

\* ------------------------------------------------------- buffer registry
MaxBuffers == 3
MaxBufferSends == 3

BufferIds == 1..MaxBuffers

\* the PIDs send_buffer is called with: 1 is alive, 2 is not
BufferPids == {1, 2}

BufferInit ==
    /\ buffers = [live |-> {}, next |-> 1, taken |-> {}]
    /\ bufBox = <<>>
    /\ bufLast = [op |-> "none", id |-> 0, res |-> "none", before |-> {}, box |-> <<>>]

\* allocate_buffer: the registry hands out the next id
AllocateBuffer ==
    /\ buffers.next <= MaxBuffers
    /\ buffers' = [buffers EXCEPT !.live = @ \cup {buffers.next}, !.next = @ + 1]
    /\ bufLast' = [op |-> "allocate_buffer", id |-> buffers.next, res |-> "Ok",
                   before |-> buffers.taken, box |-> bufBox]
    /\ UNCHANGED bufBox
    /\ OnlyBuffer

\* the capsule of a buffer is collected: free(id)
FreeBuffer(id) ==
    /\ id \in buffers.live
    /\ buffers' = [buffers EXCEPT !.live = @ \ {id}]
    /\ bufLast' = [op |-> "free", id |-> id, res |-> "Ok",
                   before |-> buffers.taken, box |-> bufBox]
    /\ UNCHANGED bufBox
    /\ OnlyBuffer

\* faulty variant of BufferTake: the id stays in the registry
BufferTakeKeep(live, id) ==
    [some |-> id \in live, live |-> live]

\* global_registry().take(id): the bytes of a registered id, which leaves the registry
BufferTake(live, id) ==
    [some |-> id \in live, live |-> live \ {id}]

\* PyRuntime::send_buffer(pid, buffer_id): a taken buffer is sent to pid as User(bytes)
\* (enqueued when pid is alive); no buffer under that id is a ValueError
SendBuffer(pid, id) ==
    LET got == BufferTake(buffers.live, id) IN
    /\ Len(bufBox) < MaxBufferSends
    /\ buffers' = [buffers EXCEPT !.live = got.live,
                                  !.taken = IF got.some THEN @ \cup {id} ELSE @]
    /\ bufBox' = IF got.some /\ pid = 1 THEN Append(bufBox, id) ELSE bufBox
    /\ bufLast' = [op |-> "send_buffer", id |-> id,
                   res |-> IF got.some THEN "Ok" ELSE "Err",
                   before |-> buffers.taken, box |-> bufBox]
    /\ OnlyBuffer

NextBuffer ==
    \/ AllocateBuffer
    \/ \E id \in BufferIds : FreeBuffer(id)
    \/ \E pid \in BufferPids, id \in BufferIds : SendBuffer(pid, id)

\* ------------------------------------------------- release_gil threads
MaxGilCalls == 4

\* the threads that call make_release_gil_channel(rt, true, _) concurrently
GilCallers == {1, 2, 3}

\* rt.get_release_gil_limits().0, fixed
GilMaxThreads == 2

GilInit ==
    /\ gilPool = [counter |-> 0, live |-> 0, shared |-> FALSE, calls |-> 0]
    /\ gilCall = [c \in GilCallers |-> [pc |-> "idle", strict |-> FALSE]]
    /\ gilLast = [op |-> "none", res |-> "none", strict |-> FALSE, prev |-> 0, live |-> 0]

\* faulty variant of GilFetchAdd: the limit is compared with > instead of >=
GilFetchAddOffByOne(c, strict) ==
    /\ gilCall[c].pc = "idle"
    /\ gilPool.calls < MaxGilCalls
    /\ gilPool' = [gilPool EXCEPT !.counter = @ + 1, !.calls = @ + 1]
    /\ gilCall' = [gilCall EXCEPT ![c] =
                      [pc |-> IF gilPool.counter > GilMaxThreads THEN "over" ELSE "under",
                       strict |-> strict]]
    /\ gilLast' = [op |-> "fetch_add", res |-> "none", strict |-> strict,
                   prev |-> gilPool.counter, live |-> gilPool.live]
    /\ OnlyGil

\* make_release_gil_channel, first step: prev = RELEASE_GIL_THREADS.fetch_add(1) and
\* the comparison prev >= max_threads
GilFetchAdd(c, strict) ==
    /\ gilCall[c].pc = "idle"
    /\ gilPool.calls < MaxGilCalls
    /\ gilPool' = [gilPool EXCEPT !.counter = @ + 1, !.calls = @ + 1]
    /\ gilCall' = [gilCall EXCEPT ![c] =
                      [pc |-> IF gilPool.counter >= GilMaxThreads THEN "over" ELSE "under",
                       strict |-> strict]]
    /\ gilLast' = [op |-> "fetch_add", res |-> "none", strict |-> strict,
                   prev |-> gilPool.counter, live |-> gilPool.live]
    /\ OnlyGil

\* make_release_gil_channel over the limit: fetch_sub(1), then the error in strict
\* mode, else the shared pool is made ready and the call returns None
GilOverLimit(c) ==
    /\ gilCall[c].pc = "over"
    /\ gilPool' = [gilPool EXCEPT !.counter = @ - 1,
                                  !.shared = @ \/ ~gilCall[c].strict]
    /\ gilCall' = [gilCall EXCEPT ![c].pc = "idle"]
    /\ gilLast' = [op |-> "over", res |-> IF gilCall[c].strict THEN "Err" ELSE "None",
                   strict |-> gilCall[c].strict, prev |-> gilPool.counter,
                   live |-> gilPool.live]
    /\ OnlyGil

\* make_release_gil_channel under the limit: the dedicated thread is spawned and the
\* call returns its sender
GilSpawnThread(c) ==
    /\ gilCall[c].pc = "under"
    /\ gilPool' = [gilPool EXCEPT !.live = @ + 1]
    /\ gilCall' = [gilCall EXCEPT ![c].pc = "idle"]
    /\ gilLast' = [op |-> "spawn", res |-> "Some", strict |-> gilCall[c].strict,
                   prev |-> gilPool.counter, live |-> gilPool.live]
    /\ OnlyGil

\* a dedicated thread ends (its channel is disconnected, or the interpreter is gone):
\* fetch_sub(1), break
GilThreadEnds ==
    /\ gilPool.live > 0
    /\ gilPool' = [gilPool EXCEPT !.counter = @ - 1, !.live = @ - 1]
    /\ gilLast' = [op |-> "end", res |-> "none", strict |-> FALSE,
                   prev |-> gilPool.counter, live |-> gilPool.live]
    /\ UNCHANGED gilCall
    /\ OnlyGil

NextGil ==
    \/ \E c \in GilCallers, strict \in BOOLEAN : GilFetchAdd(c, strict)
    \/ \E c \in GilCallers : GilOverLimit(c)
    \/ \E c \in GilCallers : GilSpawnThread(c)
    \/ GilThreadEnds

\* ------------------------------------------------------- bounded actor
MaxBoundedSends == 4

\* the capacity given to spawn_py_handler_bounded
BdCap == 1

\* after spawn_py_handler_bounded(cb, budget, BdCap, false): the mailbox is empty and
\* the handler awaits rx.recv()
BoundedInit ==
    /\ bdBox = [usr |-> <<>>, taken |-> 0]
    /\ bdActor = [pc |-> "recv", msg |-> "", handled |-> <<>>]
    /\ bdSends = <<>>

\* faulty variant of BdSend: the message is enqueued whatever the channel holds
BdSendUnbounded(body) ==
    /\ Len(bdSends) < MaxBoundedSends
    /\ bdBox' = [bdBox EXCEPT !.usr = Append(@, body)]
    /\ bdSends' = Append(bdSends, [ok |-> TRUE, body |-> body, taken |-> bdBox.taken])
    /\ UNCHANGED bdActor
    /\ OnlyBounded

\* PyRuntime::send(pid, data) to the bounded actor: try_send refuses the message when
\* the channel holds BdCap messages, and send returns whether it was taken
BdSend(body) ==
    /\ Len(bdSends) < MaxBoundedSends
    /\ IF Len(bdBox.usr) < BdCap
       THEN /\ bdBox' = [bdBox EXCEPT !.usr = Append(@, body)]
            /\ bdSends' = Append(bdSends, [ok |-> TRUE, body |-> body, taken |-> bdBox.taken])
       ELSE /\ bdSends' = Append(bdSends, [ok |-> FALSE, body |-> body, taken |-> bdBox.taken])
            /\ UNCHANGED bdBox
    /\ UNCHANGED bdActor
    /\ OnlyBounded

\* the handler's rx.recv().await returns the message at the head of the channel
BdRecv ==
    /\ bdActor.pc = "recv"
    /\ bdBox.usr # <<>>
    /\ bdBox' = [usr |-> Tail(bdBox.usr), taken |-> bdBox.taken + 1]
    /\ bdActor' = [bdActor EXCEPT !.pc = "call", !.msg = Head(bdBox.usr)]
    /\ UNCHANGED bdSends
    /\ OnlyBounded

\* the handler calls the Python callable with the message under the GIL and goes back
\* to rx.recv()
BdCallback ==
    /\ bdActor.pc = "call"
    /\ bdActor' = [pc |-> "recv", msg |-> "", handled |-> Append(bdActor.handled, bdActor.msg)]
    /\ UNCHANGED <<bdBox, bdSends>>
    /\ OnlyBounded

NextBounded ==
    \/ \E b \in Bodies : BdSend(b)
    \/ BdRecv
    \/ BdCallback

\* -------------------------------------------------------- specifications
\* the mailbox
InitMailbox == Init /\ RegistryInit /\ SwapInit /\ RuntimeInit /\ SupervisorInit /\ ActorInit /\ NetworkInit
    /\ SharedInit
    /\ BufferInit
    /\ GilInit
    /\ BoundedInit

Spec == InitMailbox /\ [][Next]_vars

\* the name registry
InitRegistry == RegistryInit /\ MailboxInit /\ SwapInit /\ RuntimeInit /\ SupervisorInit /\ ActorInit /\ NetworkInit
    /\ SharedInit
    /\ BufferInit
    /\ GilInit
    /\ BoundedInit

SpecRegistry == InitRegistry /\ [][NextRegistry]_registryVars

\* hot swap
InitSwap == SwapInit /\ MailboxInit /\ RegistryInit /\ RuntimeInit /\ SupervisorInit /\ ActorInit /\ NetworkInit
    /\ SharedInit
    /\ BufferInit
    /\ GilInit
    /\ BoundedInit

SpecSwap == InitSwap /\ [][NextSwap]_swapVars

\* actors, links and monitors
InitRuntime == RuntimeInit /\ MailboxInit /\ RegistryInit /\ SwapInit /\ SupervisorInit /\ ActorInit /\ NetworkInit
    /\ SharedInit
    /\ BufferInit
    /\ GilInit
    /\ BoundedInit

SpecRuntime == InitRuntime /\ [][NextRuntime]_runtimeVars

\* the executor polls every actor task again and again
SpecRuntimeFair == SpecRuntime /\ \A p \in Pids : WF_runtimeVars(Scheduled(p))

\* the supervisor
InitSupervisor == SupervisorInit /\ MailboxInit /\ RegistryInit /\ SwapInit /\ RuntimeInit /\ ActorInit /\ NetworkInit
    /\ SharedInit
    /\ BufferInit
    /\ GilInit
    /\ BoundedInit

SpecSupervisor == InitSupervisor /\ [][NextSupervisor]_supervisorVars

\* one observed actor with its timers
InitActor ==
    /\ ActorInit /\ MailboxInit /\ RegistryInit /\ SwapInit /\ RuntimeInit
    /\ SupervisorInit /\ NetworkInit
    /\ SharedInit
    /\ BufferInit
    /\ GilInit
    /\ BoundedInit

SpecActor == InitActor /\ [][NextActor]_actorVars

\* the network endpoint
InitNetwork ==
    /\ NetworkInit /\ MailboxInit /\ RegistryInit /\ SwapInit /\ RuntimeInit
    /\ SupervisorInit /\ ActorInit
    /\ SharedInit
    /\ BufferInit
    /\ GilInit
    /\ BoundedInit

SpecNetwork == InitNetwork /\ [][NextNetwork]_networkVars


\* one mailbox under concurrent senders and callers
InitShared ==
    /\ SharedInit /\ MailboxInit /\ RegistryInit /\ SwapInit /\ RuntimeInit
    /\ SupervisorInit /\ ActorInit /\ NetworkInit
    /\ BufferInit
    /\ GilInit
    /\ BoundedInit

SpecShared == InitShared /\ [][NextShared]_sharedVars

\* the buffer registry
InitBuffer ==
    /\ BufferInit /\ MailboxInit /\ RegistryInit /\ SwapInit /\ RuntimeInit
    /\ SupervisorInit /\ ActorInit /\ NetworkInit /\ SharedInit
    /\ GilInit
    /\ BoundedInit

SpecBuffer == InitBuffer /\ [][NextBuffer]_bufferVars

\* the dedicated release_gil threads
InitGil ==
    /\ GilInit /\ MailboxInit /\ RegistryInit /\ SwapInit /\ RuntimeInit
    /\ SupervisorInit /\ ActorInit /\ NetworkInit /\ SharedInit /\ BufferInit
    /\ BoundedInit

SpecGil == InitGil /\ [][NextGil]_gilVars

\* one bounded actor
InitBounded ==
    /\ BoundedInit /\ MailboxInit /\ RegistryInit /\ SwapInit /\ RuntimeInit
    /\ SupervisorInit /\ ActorInit /\ NetworkInit /\ SharedInit /\ BufferInit /\ GilInit

SpecBounded == InitBounded /\ [][NextBounded]_boundedVars

\* ------------------------------------------------------------ properties
Ids(q) == {q[i].id : i \in 1..Len(q)}

\* the user messages a receive can still return, oldest first
PendingUsers(st, us) == UsersOf(st) \o us

SendOps == {"send", "send_user_bytes", "send_system"}
RecvOps == {"recv", "try_recv"}

\* position of m in q, 0 when it is not there
IndexOf(m, q) == IF \E i \in 1..Len(q) : q[i] = m THEN CHOOSE i \in 1..Len(q) : q[i] = m ELSE 0

\* q without its element m
Without(m, q) == IF IndexOf(m, q) = 0 THEN q ELSE RemoveAt(q, IndexOf(m, q))

\* C1: while the receiver exists, after every completed call the counter equals the
\* number of user messages in the user channel plus the user messages in the stash.
CounterConsistency ==
    rxAlive => counter = Len(usr) + Len(UsersOf(stash))

\* C1 witness: a selective receive returned a user message and left one user
\* message in the stash and one in the channel.
CounterConsistencyWitness ==
    /\ last.op = "selective_recv"
    /\ last.res = "Some"
    /\ IsUser(last.msg)
    /\ Len(UsersOf(stash)) = 1
    /\ Len(usr) = 1
    /\ counter = 2

\* C2: a recv or try_recv that finds a system message and a user message available
\* (in the channels or in the stash) returns a system message.
SystemPriority ==
    (/\ last.op \in RecvOps
     /\ SystemsOf(last.pre.stash) \o last.pre.sys # <<>>
     /\ PendingUsers(last.pre.stash, last.pre.usr) # <<>>)
    => (last.res = "Some" /\ IsSystem(last.msg))

\* C2 witness: recv found a deferred user message at the front of the stash and a
\* system message in the system channel, and returned the system message.
SystemPriorityWitness ==
    /\ last.op = "recv"
    /\ last.pre.stash # <<>>
    /\ IsUser(Head(last.pre.stash))
    /\ SystemsOf(last.pre.stash) = <<>>
    /\ last.pre.sys # <<>>
    /\ last.res = "Some"
    /\ last.msg = Head(last.pre.sys)

\* What Selective ordering asks of a selective_recv(P) that ends with user messages
\* M1..Mn pending (stash, then user channel), no system message pending and some Mi
\* accepted by P: it returns the first such Mi and leaves the others in their order.
SelectiveOrderingAt(l) ==
    LET M == PendingUsers(l.pre.stash, l.pre.usr)
        i == FirstMatch(l.pred, M)
    IN  (/\ l.op = "selective_recv"
         /\ l.res # "Timeout"
         /\ SystemsOf(l.pre.stash) \o l.pre.sys = <<>>
         /\ i > 0)
        => (/\ l.res = "Some"
            /\ l.msg = M[i]
            /\ PendingUsers(stash, usr) = RemoveAt(M, i))

\* C3: selective_recv(P) returns the first pending user message P accepts, and the
\* other pending user messages stay, in their original order, for the recv calls
\* that follow.
SelectiveOrdering == last.op # "none" => SelectiveOrderingAt(last)

\* Selective ordering as the code keeps it: the same, while a sender still exists.
SelectiveOrderingWhileOpen == (last.op # "none" /\ txAlive) => SelectiveOrderingAt(last)

\* C4: on a bounded mailbox whose len() equals its capacity, send(User(p)) returns
\* Err carrying User(p) and leaves the queued messages and len() as they were.
BoundedDropNew ==
    (/\ last.op = "send"
     /\ IsUser(last.msg)
     /\ rxAlive
     /\ cap > 0
     /\ last.pre.counter = cap)
    => (/\ last.res = "Err"
        /\ last.back = last.msg
        /\ usr = last.pre.usr
        /\ stash = last.pre.stash
        /\ counter = last.pre.counter)

\* C5: when recv or try_recv returns a message, no message of the same kind from the
\* same sender that was accepted earlier is still waiting: per sender, user messages
\* come out in the order accepted, and so do system messages.
PerSenderFifo ==
    (last.op \in RecvOps /\ last.res = "Some")
    => \A m \in Range(stash) \cup Range(sys) \cup Range(usr) :
          (m.kind = last.msg.kind /\ m.from = last.msg.from) => m.id > last.msg.id

\* C5 witness: recv returned a user message of a sender while a later user message
\* of that sender and a user message of the other sender were both still waiting.
PerSenderFifoWitness ==
    /\ last.op = "recv"
    /\ last.res = "Some"
    /\ IsUser(last.msg)
    /\ \E m \in Range(stash) \cup Range(usr) : IsUser(m) /\ m.from = last.msg.from
    /\ \E m \in Range(stash) \cup Range(usr) : IsUser(m) /\ m.from # last.msg.from

PredicateOnce ==
    /\ \A i \in 1..MaxMsgs : evals[i] <= 1
    /\ last.op # "none" => \A i \in 1..MaxMsgs : last.evals[i] <= 1

\* C8: a receive that ends by timeout returns nothing and loses nothing: every
\* accepted message that was not returned earlier is still queued, len() counts the
\* queued user messages, and every message the call examined is in the stash.
TimeoutDoesNotConsume ==
    last.res = "Timeout"
    => /\ last.msg = NoMsg
       /\ accepted \ delivered = Ids(stash) \cup Ids(sys) \cup Ids(usr)
       /\ counter = Len(PendingUsers(stash, usr))
       /\ \A i \in 1..MaxMsgs : last.evals[i] > 0 => i \in Ids(stash)

\* C8 witness: a selective receive timed out after it had examined and rejected a
\* system message and a user message, both of which are in the stash.
TimeoutDoesNotConsumeWitness ==
    /\ last.op = "selective_recv"
    /\ last.res = "Timeout"
    /\ Len(stash) = 2
    /\ Len(UsersOf(stash)) = 1
    /\ \A i \in Ids(stash) : last.evals[i] > 0
    /\ counter = 1

\* C9: while the receiver exists a system send returns Ok, appends the message to
\* the system channel and leaves len() alone, however full the user queue is.
SystemSendUnbounded ==
    (last.op \in {"send", "send_system"} /\ IsSystem(last.msg) /\ rxAlive)
    => (/\ last.res = "Ok"
        /\ sys = Append(last.pre.sys, last.msg)
        /\ usr = last.pre.usr
        /\ counter = last.pre.counter)

\* C9 witness: send_system returned Ok on a bounded mailbox whose user queue was full.
SystemSendUnboundedWitness ==
    /\ last.op = "send_system"
    /\ last.res = "Ok"
    /\ cap > 0
    /\ Len(last.pre.usr) = cap
    /\ last.pre.counter = cap
    /\ rxAlive

\* C10: once the receiver is dropped every send returns Err carrying the message it
\* was given, and len() stays what it was when the receiver went.
ClosedMailbox ==
    ~rxAlive
    => /\ counter = closedLen
       /\ last.op \in SendOps => (last.res = "Err" /\ last.back = last.msg)

\* C10 witness: send_user_bytes failed on a dropped receiver whose counter was not 0.
ClosedMailboxWitness ==
    /\ ~rxAlive
    /\ last.op = "send_user_bytes"
    /\ last.res = "Err"
    /\ last.back = last.msg
    /\ counter > 0

\* what recv would do from the mailbox try_recv found: the same message, the same
\* stash and channels afterwards
SameAsRecv(l) ==
    LET r == RecvPoll(l.pre.stash, l.pre.sys, l.pre.usr, Closed) IN
    /\ (l.res = "None") <=> (l.pre.stash = <<>> /\ l.pre.sys = <<>> /\ l.pre.usr = <<>>)
    /\ l.res = "Some" => /\ r.t = "msg"
                         /\ r.m = l.msg
                         /\ r.stash = stash
                         /\ r.sys = sys
                         /\ r.usr = usr
                         /\ counter = l.pre.counter - (IF r.dec THEN 1 ELSE 0)

\* C11: try_recv returns None exactly when the stash and both channels are empty, and
\* otherwise returns the message recv would return from the same mailbox and leaves
\* the mailbox as recv would, also after every sender has been dropped.
TryRecvAnalogue == last.op = "try_recv" => SameAsRecv(last)

\* try_recv agrees with recv as long as a sender is alive.
TryRecvAnalogueWhileOpen == (last.op = "try_recv" /\ txAlive) => SameAsRecv(last)

\* C33: once every sender has been dropped, recv and try_recv still return the user
\* messages accepted before the drop, from the stash and from the user channel, and
\* return None only when no message remains.
NoMessageLeftBehind ==
    (/\ last.op \in RecvOps
     /\ ~txAlive
     /\ rxAlive
     /\ last.res = "None")
    => PendingUsers(last.pre.stash, last.pre.usr) = <<>>

\* C34: on a mailbox created with bounded_channel(k), len() never exceeds k.
CapacityBoundsLen == (cap > 0 /\ rxAlive) => counter <= cap

\* ------------------------------------------------- name registry properties
\* what the calls of `log` leave under `name`: the PID of the latest register(name, _)
\* that no unregister(name) followed, None when there is none
RECURSIVE LastWriter(_, _)
LastWriter(log, name) ==
    IF log = <<>> THEN None
    ELSE LET c == log[Len(log)] IN
         IF c.name = name
         THEN IF c.op = "register" THEN Some(c.pid) ELSE None
         ELSE LastWriter(SubSeq(log, 1, Len(log) - 1), name)

\* C19: the flat registry is a last-writer-wins map: every name resolves to the PID of
\* the latest register of that name that no unregister of it followed, and to nothing
\* otherwise; resolve returns just that; unregister of an unknown name changes no
\* mapping; a register or unregister of one name leaves every other name as it was.
LastWriterWins ==
    /\ \A n \in RegNames : Get(names, n) = LastWriter(regLog, n)
    /\ regLast.op \in {"resolve", "whereis"} => regLast.res = LastWriter(regLog, regLast.name)
    /\ (regLast.op = "unregister" /\ regLast.name \notin DOMAIN regLast.pre)
       => names = regLast.pre
    /\ regLast.op \in {"register", "unregister"}
       => \A n \in RegNames \ {regLast.name} : Get(names, n) = Get(regLast.pre, n)

\* C19 witness: a name registered twice with different PIDs and another name
\* unregistered after its registration; resolve returned the second PID.
LastWriterWinsWitness ==
    /\ regLast.op = "resolve"
    /\ \E i, j, k, l \in 1..Len(regLog) :
          /\ i < j
          /\ regLog[i].op = "register" /\ regLog[i].name = regLast.name
          /\ regLog[j].op = "register" /\ regLog[j].name = regLast.name
          /\ regLog[i].pid # regLog[j].pid
          /\ regLast.res = Some(regLog[j].pid)
          /\ k < l
          /\ regLog[k].op = "register" /\ regLog[k].name # regLast.name
          /\ regLog[l].op = "unregister" /\ regLog[l].name = regLog[k].name
          /\ Get(names, regLog[k].name) = None

\* C20: after any sequence of register/unregister calls a registered PID appears
\* under at most one flat name.
OneNamePerPid ==
    \A n1, n2 \in DOMAIN names : names[n1] = names[n2] => n1 = n2

\* ------------------------------------------------------- hot swap properties
\* every user message the actor dequeued after HotSwap(P) was handled by P
SwapOrdered == \A h \in swHandled : h.want # FirstBehavior => h.by = h.want

\* C18: once the actor has dequeued HotSwap(P), every user message it handles
\* afterwards is handled by P, on the inline path, the dedicated thread path and the
\* shared pool path.
HotSwapOrdering == swPath \in {"inline", "thread", "pool"} => SwapOrdered

\* the ordering holds where one thread runs the callbacks.
HotSwapOrderingOneThread == swPath \in {"inline", "thread"} => SwapOrdered

\* the dedicated thread has handled a user message that was dequeued after the swap
HotSwapOrderingOneThreadWitness ==
    /\ swPath = "thread"
    /\ \E h \in swHandled : h.want # FirstBehavior /\ h.by = h.want

\* --------------------------------------------------------- runtime properties
\* the Exit messages from d that went into the mailbox of s
ExitsFrom(d, s) == SelectSeq(exits[s], LAMBDA m : m.from = d)

MonitorAsymmetry ==
    \A d, s \in Pids :
        IsDead(d)
        => /\ s \in atExit[d].watchers
              => /\ Len(ExitsFrom(d, s)) >= 1
                 /\ \A i \in 1..Len(ExitsFrom(d, s)) :
                       ExitsFrom(d, s)[i] = Exit(d, actors[d].reason)
           /\ s \in atExit[d].targets \ (atExit[d].watchers \cup atExit[d].linked)
              => ExitsFrom(d, s) = <<>>

\* C13 witness: 1 monitored 2 and nothing else joined them; 2 exited and 1 holds
\* the Exit from 2.
MonitorAsymmetryWitness ==
    /\ IsDead(2)
    /\ IsAlive(1)
    /\ atExit[2].watchers = {1}
    /\ atExit[2].linked = {}
    /\ atExit[2].targets = {}
    /\ ExitsFrom(2, 1) = <<Exit(2, actors[2].reason)>>

\* C14: a live child whose parent is not-alive, whatever ended the parent (stop,
\* return or panic), eventually is not-alive itself.
StructuredConcurrency ==
    \A c, p \in Pids :
        (IsAlive(c) /\ actors[c].parent = p /\ IsDead(p)) ~> IsDead(c)

\* C14 witness: 2 was spawned as a child of 1, 1 panicked, and 2, which nobody called
\* stop on, left through its shutdown.
StructuredConcurrencyWitness ==
    /\ IsDead(1)
    /\ atExit[1].cause = "panic"
    /\ IsDead(2)
    /\ actors[2].parent = 1
    /\ atExit[2].cause = "stop"
    /\ 2 \notin seen.stopped

\* C15: an actor whose handler raised, that nobody stopped and that has nothing left
\* to do (not in its handler, empty mailbox) is not-alive.
CrashPropagation ==
    \A p \in seen.raised \ seen.stopped :
        (~actors[p].busy /\ ~actors[p].stop /\ inbox[p] = 0) => IsDead(p)

\* what stop may never lead to: a user message taken after the call, an exit with
\* reason Normal, or, when the actor left through its shutdown, a reason or an Exit
\* that is not Killed
StopSafety ==
    /\ seen.late = {}
    /\ \A d \in seen.stopped :
          IsDead(d)
          => /\ actors[d].reason # "Normal"
             /\ \A s \in Pids : \A i \in 1..Len(ExitsFrom(d, s)) :
                   ExitsFrom(d, s)[i].reason # "Normal"
             /\ atExit[d].cause = "stop"
                => /\ actors[d].reason = "Killed"
                   /\ \A s \in Pids : \A i \in 1..Len(ExitsFrom(d, s)) :
                         ExitsFrom(d, s)[i].reason = "Killed"

MovedTo(q) ==
    /\ q \in ChildPids
    /\ supLast.pid \notin ChildPids
    /\ ChildPids = (DOMAIN supLast.before \ {supLast.pid}) \cup {q}
    /\ ChildrenCount = Cardinality(DOMAIN supLast.before)
    /\ children[q] = supLast.before[supLast.pid]

\* the last step was the exit of a child supervised with RestartOne
RestartOneHandled ==
    /\ supLast.op = "exit"
    /\ supLast.pid \in DOMAIN supLast.before
    /\ supLast.before[supLast.pid].strategy = "RestartOne"

\* C16: after the exit of a child supervised with RestartOne the factory was called
\* once; if it returned a PID, the entry of the dead PID is now under that PID, the
\* dead PID is no child any more and the number of children is the same; if it
\* failed, the entry is gone and nothing else changed.
RestartOneReplaces ==
    RestartOneHandled
    => /\ supLast.calls = 1
       /\ supLast.result = "ok" => MovedTo(supLast.returned)
       /\ supLast.result = "err"
          => /\ children = RemoveChild(supLast.before, supLast.pid)
             /\ supLive = supLast.liveBefore \ {supLast.pid}

\* the same for the children registered with supervise_with_factory
RestartOneReplacesWithFactory ==
    (RestartOneHandled /\ supLast.before[supLast.pid].factory = "py")
    => /\ supLast.calls = 1
       /\ supLast.result = "ok" => MovedTo(supLast.returned)
       /\ supLast.result = "err"
          => /\ children = RemoveChild(supLast.before, supLast.pid)
             /\ supLive = supLast.liveBefore \ {supLast.pid}

RestartOneReplacesWithFactoryWitness ==
    /\ RestartOneHandled
    /\ supLast.before[supLast.pid].factory = "py"
    /\ supLast.result = "ok"
    /\ ChildPids = {supLast.returned}

\* the last call was watch, supervise_with_factory or path_supervise_with_factory
RegistrationReturned == supLast.op \in {"watch", "supervise", "path_supervise"}

\* C29: a call of watch, supervise_with_factory or path_supervise_with_factory whose
\* strategy string is none of the accepted spellings returns an error, calls no
\* factory, and leaves the supervised children (and the live actors) as they were.
InvalidStrategyRejected ==
    (RegistrationReturned
     /\ ToLowercase(supLast.strategy)
           \notin {"restartone", "restart_one", "one", "restartall", "restart_all", "all"})
    => /\ supLast.result = "err"
       /\ supLast.calls = 0
       /\ children = supLast.before
       /\ pathChildren = supLast.pathBefore
       /\ supLive = supLast.liveBefore

\* C29 witness: supervise_with_factory was called with "one-for-one" on a live actor
\* while another child was supervised, and returned the error.
InvalidStrategyRejectedWitness ==
    /\ supLast.op = "supervise"
    /\ supLast.strategy = "one-for-one"
    /\ supLast.pid \in supLive
    /\ ChildrenCount = 1
    /\ supLast.result = "err"

\* C30: when supervise_with_factory(pid, ...) succeeded on a runtime with no supervised
\* child, the supervisor has one child and child_pids is [pid].
RegisteredChild ==
    (supLast.op = "supervise" /\ supLast.result = "ok" /\ DOMAIN supLast.before = {})
    => /\ ChildrenCount = 1
       /\ ChildPids = {supLast.pid}

\* C30 witness: the first registration, of actor 1, with the factory having spawned
\* actor 2.
RegisteredChildWitness ==
    /\ supLast.op = "supervise"
    /\ supLast.result = "ok"
    /\ DOMAIN supLast.before = {}
    /\ supLast.pid = 1
    /\ supLast.returned = 2
    /\ ChildPids = {1}

\* --------------------------------------------- actor and timer properties
\* C25: a one-shot timer puts its payload into the mailbox of its target at most
\* once; cancel_timer returns true exactly when the timer was still armed, a timer it
\* returned true for never fires, and it returns false for a timer that has fired or
\* was cancelled before.
OneShotTimer ==
    /\ \A id \in DOMAIN timers :
          /\ timers[id].fired <= 1
          /\ id \in actorLog.cancelled => timers[id].fired = 0 /\ timers[id].state = "cancelled"
    /\ actorLog.last.op = "cancel"
       => IF actorLog.last.res
          THEN actorLog.last.arg \in actorLog.cancelled
          ELSE \/ actorLog.last.arg \notin DOMAIN timers
               \/ timers[actorLog.last.arg].state \in {"fired", "cancelled"}

\* C25 witness: the timer for the live actor was cancelled with a true return, the
\* actor has taken messages since, and a second cancel has just returned false.
OneShotTimerWitness ==
    /\ actorLog.cancelled = {1}
    /\ timers[1].target = 1
    /\ ActorAlive(1)
    /\ Len(actorLog.dispatched) > 0
    /\ actorLog.last = ActorDone("cancel", 1, FALSE)

ObservedExactlyUsers ==
    ActorAlive(1) => actor.observed = SelectSeq(actorLog.dispatched, IsUser)

\* C27: the observed list is the sequence of the messages dispatched to the actor so
\* far, user and system, in the order of dispatch, without those that
\* take_observed_message_matching has removed; none is missing or doubled.
ObservedInOrder ==
    ActorAlive(1)
    => actor.observed = SelectSeq(actorLog.dispatched, LAMBDA m : m.id \notin actorLog.taken)

\* C27 witness: three messages were dispatched, a system message among them; one was
\* taken and the list holds the two others.
ObservedInOrderWitness ==
    /\ ActorAlive(1)
    /\ Len(actorLog.dispatched) = 3
    /\ Cardinality(actorLog.taken) = 1
    /\ Len(actor.observed) = 2
    /\ \E i \in 1..2 : IsSystem(actor.observed[i])

\* C28: a send to a PID that names no live actor returns Ok and changes no mailbox,
\* no observed list and no timer.
SendToDeadOk ==
    [][(actorLog'.last.op = "send" /\ actorLog' # actorLog /\ ~ActorAlive(actorLog'.last.arg))
       => (actorLog'.last.res = Ok /\ actor' = actor /\ timers' = timers)]_actorVars

\* C28 witness: the actor has exited with a timer still armed, and a send to its PID
\* has returned Ok.
SendToDeadOkWitness ==
    /\ actor.state = "dead"
    /\ actorLog.last = ActorDone("send", 1, Ok)
    /\ Len(timers) = 1
    /\ timers[1].state = "armed"

\* C39: once the supervisor has handled the exit of a child registered through watch,
\* child_pids names no PID that this exit left not alive: the dead PID is not re-armed.
SupervisedPidsLive ==
    (/\ supLast.op = "exit"
     /\ supLast.pid \in DOMAIN supLast.before
     /\ supLast.before[supLast.pid].factory = "same")
    => \A k \in ChildPids : k \in supLive \/ k \notin supLast.liveBefore

\* C40: supervise_with_factory and path_supervise_with_factory call no factory when
\* they register a child, and leave the set of live actors as it was.
RegistrationNoSpawn ==
    (supLast.op \in {"supervise", "path_supervise"} /\ supLast.result = "ok")
    => (supLast.calls = 0 /\ supLive = supLast.liveBefore)

\* ---- network

\* the connections of one kind
ConnsOf(kind) == {c \in DOMAIN conns : conns[c].kind = kind}

\* how many of the opcodes the task of connection c has read are `op`
HeadCount(c, op) == Cardinality({i \in 1..Len(conns[c].heads) : conns[c].heads[i] = op})

\* the PID registered under `name` on the listening node, 0 when there is none
RegisteredOrZero(name) == IF name \in DOMAIN node.names THEN node.names[name] ELSE 0

\* C21: resolve_remote(addr, name) returns the PID that was registered under name on the
\* listening node when the server served the request, and 0 when no PID was registered
\* under it then; and the server writes exactly one 8-byte PID for every resolve request
\* it serves.
RemoteResolve ==
    /\ [](\A c \in ConnsOf("resolve") :
            /\ Len(conns[c].out) + 8 * Len(conns[c].result) = 8 * HeadCount(c, 1)
            /\ conns[c].result # <<>> =>
                 /\ Len(conns[c].found) = 1
                 /\ conns[c].result[1] =
                        IF conns[c].found[1] = None THEN 0 ELSE conns[c].found[1][1])
    /\ [][\A c \in ConnsOf("resolve") :
            conns'[c].heads # conns[c].heads =>
                /\ conns'[c].found = <<Get(node.names, conns[c].data)>>
                /\ conns'[c].out = BE(RegisteredOrZero(conns[c].data), 8)]_networkVars

\* one resolve_remote has returned 0 for a name that was not registered, another has
\* returned the PID of a name that has been unregistered since
RemoteResolveWitness ==
    \E c, d \in ConnsOf("resolve") :
        /\ conns[c].result = <<0>>
        /\ conns[d].result # <<>>
        /\ conns[d].result[1] # 0
        /\ conns[d].data \notin DOMAIN node.names

\* C22: for every pid and payload, the connection of send_remote(addr, pid, payload)
\* makes the server decode the same pid and the identical payload bytes, and enqueue
\* exactly one User(payload) into the mailbox of pid (when pid is alive there).
WireRoundTrip ==
    \A c \in ConnsOf("send") :
        conns[c].task # "serving" =>
            /\ conns[c].got = << <<conns[c].pid, conns[c].data>> >>
            /\ conns[c].pid \in DOMAIN node.box =>
                 \E i \in 1..Len(node.box[conns[c].pid]) :
                     node.box[conns[c].pid][i] = conns[c].data

\* a task that is no longer serving has stopped at the first opcode outside the
\* protocol or at the frame the stream ended in
StoppedAtOffence(c) ==
    LET k == conns[c] IN
    /\ \A i \in 1..(Len(k.heads) - 1) : k.heads[i] \in {0, 1}
    /\ k.heads # <<>> /\ k.heads[Len(k.heads)] \notin {0, 1} => k.task = "ended"

\* the task of connection c has something to act on: a whole frame, an opcode outside
\* the protocol, or the end of the stream
Servable(c) ==
    LET k == conns[c] IN
    /\ k.task = "serving"
    /\ \/ k.inp = <<>> /\ k.eof
       \/ k.inp # <<>> /\ (k.eof \/ HeadByte(k.inp) \notin {0, 1}
                                  \/ Len(k.inp) >= 1 + Needs(k.inp))

\* C23: an opcode outside the protocol, or a frame the stream ends in, ends the
\* connection it arrived on: the task stops there and nothing that follows on that
\* connection is read, delivered or answered; the listener keeps accepting, and every
\* other connection is served: a task that has a frame, an opcode outside the protocol
\* or the end of its stream before it can take its round whatever has happened on the
\* other connections, and a send_remote of two bytes is delivered as it was sent.
ConnectionIsolation ==
    /\ [](node.listening /\ \A c \in DOMAIN conns : StoppedAtOffence(c))
    /\ [][\A c \in DOMAIN conns :
            conns[c].task # "serving" =>
                /\ conns'[c].task = conns[c].task
                /\ conns'[c].heads = conns[c].heads
                /\ conns'[c].got = conns[c].got
                /\ conns'[c].inp = conns[c].inp
                /\ conns'[c].found = conns[c].found]_networkVars
    /\ [](\A c \in DOMAIN conns :
            /\ Servable(c) => ENABLED ServeFrame(c)
            /\ conns[c].kind = "send" /\ conns[c].data = <<7, 9>> /\ conns[c].task = "ended"
                   => conns[c].got = << <<conns[c].pid, <<7, 9>> >> >>)

\* the first connection was ended by an opcode outside the protocol with a frame left
\* unread, and a send_remote that connected after it was delivered
ConnectionIsolationWitness ==
    /\ Len(conns) = 2
    /\ conns[1].kind = "raw"
    /\ conns[1].task = "ended"
    /\ conns[1].heads = <<9>>
    /\ conns[1].inp # <<>>
    /\ conns[2].kind = "send"
    /\ conns[2].got = << <<conns[2].pid, conns[2].data>> >>

\* C24: a connection on which the server has read opcode 0x02 stays open (its task
\* keeps serving), and opcode 0x02 is not treated as an unknown opcode.
RemoteMonitorKeepsOpen ==
    \A c \in DOMAIN conns : HeadCount(c, 2) > 0 => conns[c].task = "serving"

\* C37: two send_remote calls issued one after the other to the same address and pid
\* are enqueued into the mailbox of pid in the order they were issued (the connections
\* are numbered in the order of the calls).
RemoteSendOrdering ==
    \A c, d \in ConnsOf("send") :
        (/\ c < d
         /\ conns[c].pid = conns[d].pid
         /\ conns[c].pid \in DOMAIN node.box
         /\ conns[c].data # conns[d].data
         /\ conns[c].got = << <<conns[c].pid, conns[c].data>> >>
         /\ conns[d].got = << <<conns[d].pid, conns[d].data>> >>)
        => node.box[conns[c].pid] = <<conns[c].data, conns[d].data>>

\* ---- shared mailbox

\* the user messages in the channel plus those in the stash
ShQueued == Len(shBox.usr) + Len(shBox.stash)

\* the sends between their fetch_add and their enqueue or rollback, and the receives
\* between taking a message and their fetch_sub
ShInFlight ==
    Cardinality({s \in ShSenders : shSend[s].pc # "idle"})
        + Cardinality({c \in Callers : shCall[c].pc = "taken"})

SharedReceiveExclusive ==
    /\ \A c \in Callers : shCall[c].pc \in {"polling", "taken"} => shLock = c
    /\ \A i, j \in 1..Len(shLog.returned) :
           shLog.returned[i] = shLog.returned[j] => i = j

\* C36: when several threads receive on clones of one PyMailbox, the receives exclude
\* each other, no accepted message is returned to two callers, and no caller is told
\* that the mailbox has ended (None) while an accepted message has not been returned:
\* such a message would be returned to nobody however long the callers keep receiving.
ExactlyOnceShared ==
    /\ SharedReceiveExclusive
    /\ shLog.lost = {}

\* ---- buffer registry

\* C32: once a buffer id has been taken, a send_buffer with that id is an error and
\* enqueues nothing.
BufferTakeSingleUse ==
    (bufLast.op = "send_buffer" /\ bufLast.id \in bufLast.before)
    => (bufLast.res = "Err" /\ bufBox = bufLast.box)

\* a second send_buffer with an id that was delivered before has just failed
BufferTakeSingleUseWitness ==
    /\ bufLast.op = "send_buffer"
    /\ bufLast.id \in bufLast.before
    /\ bufLast.id \in Range(bufBox)
    /\ bufLast.res = "Err"

\* ---- release_gil threads

\* C38: for fixed limits the number of live dedicated release_gil threads never
\* exceeds max_threads, whatever the interleaving of the calls; a call that finds the
\* limit reached creates no thread and returns the error (strict) or falls back to the
\* shared pool; and the counter is the live threads plus the calls between their two
\* steps, so that the end of a thread takes exactly one off it.
GilThreadsCapped ==
    /\ gilPool.live <= GilMaxThreads
    /\ gilPool.counter =
           gilPool.live + Cardinality({c \in GilCallers : gilCall[c].pc # "idle"})
    /\ gilLast.op = "over"
       => /\ gilPool.live = gilLast.live
          /\ gilLast.res = IF gilLast.strict THEN "Err" ELSE "None"
          /\ ~gilLast.strict => gilPool.shared
    /\ gilLast.op = "end" => gilPool.counter = gilLast.prev - 1

\* with max_threads threads alive a non-strict call has just fallen back to the shared
\* pool while another call is between its two steps
GilThreadsCappedWitness ==
    /\ gilPool.live = GilMaxThreads
    /\ gilLast.op = "over"
    /\ gilLast.res = "None"
    /\ gilPool.counter = GilMaxThreads + 1

\* ---- bounded actor

BdAcceptedBefore(i) == Cardinality({j \in 1..(i - 1) : bdSends[j].ok})

====
